---- MODULE Spec2Model ----
(***************************************************************************)
(* Dining philosophers server (NSY-103): the shared resources, the         *)
(* createPhilosopher / updatePhilosopher managers run by one handler       *)
(* process per connected client, and the client's philosopherThread.       *)
(*                                                                         *)
(* A chopstick pointer is the 1-based slot of the chopstick in             *)
(* sharedResources->chopsticks (NULL is 0); a ServerPhilosopher pointer is *)
(* the 1-based slot in sharedResources->philosophers.  A POSIX semaphore   *)
(* is its value.  Every blocking sem_wait is a step of its own, and so is  *)
(* every write to shared memory that another process may observe; log      *)
(* calls change no modelled state except the count of error records.       *)
(***************************************************************************)
EXTENDS Integers, Sequences, FiniteSets, TLC

\* ---- program constants ----
MAX_PHILOSOPHERS == 7
THINKING == 0
HUNGRY == 1
EATING == 2
NULL == 0

\* ---- bounds of the model ----
\* handler processes (connected clients) of the specification Spec
MaxProc == 3
\* scaled-down MIN_STATE_TIME / MAX_STATE_TIME of the client's timer
MinStateTime == 2
MaxStateTime == 2
\* requests a client may have written that its handler has not read yet
MaxPending == 1

VARIABLES
    maxAllowedEating,            \* sem_t: value
    philosopherCreationProcess,  \* sem_t: value
    philosophers,                \* ServerPhilosopher philosophers[MAX_PHILOSOPHERS]
    numberPhilosophers,
    chopsticks,                  \* Chopstick chopsticks[MAX_PHILOSOPHERS]
    numberChopsticks,
    pc,                          \* position of each handler process
    request,                     \* the Request a handler is serving
    philosopher,                 \* createPhilosopher's local ServerPhilosopher
    serverPhilosopher,           \* updatePhilosopher's local pointer into the table
    semArg,                      \* the sem_t* a blocked sem_wait was called with
    client,                      \* ClientPhilosopher of each connection
    toServer,                    \* socket, client -> handler
    toClient,                    \* socket, handler -> client
    held,                        \* history: chopstick semaphores a process has taken
    permit,                      \* history: maxAllowedEating permits a process has taken
    errorLogs,                   \* error records logged by the handler's last call
    logsQueue,                   \* the message queue of logsQueueId
    destroyed,                   \* the semaphores sem_destroy was called on
    cleanup,                     \* position of the parent process in cleanup
    main                         \* main: its accept loop, shutdownFlag, ServerContext

vars == << maxAllowedEating, philosopherCreationProcess, philosophers,
           numberPhilosophers, chopsticks, numberChopsticks, pc, request,
           philosopher, serverPhilosopher, semArg, client, toServer, toClient,
           held, permit, errorLogs, logsQueue, destroyed, cleanup, main >>

\* the log queue and the parent process: the handlers and the clients leave
\* them alone while the server runs and the log threads keep the queue empty
parent == << logsQueue, destroyed, cleanup, main >>

shared == << maxAllowedEating, philosopherCreationProcess, philosophers,
             numberPhilosophers, chopsticks, numberChopsticks >>

Slots == 1..MAX_PHILOSOPHERS
Procs == DOMAIN pc

\* ---- types ----
ZeroBase == [id |-> 0, state |-> THINKING, stateTimer |-> 0]
ZeroPhilosopher ==
    [base |-> ZeroBase, leftChopstick |-> NULL, rightChopstick |-> NULL]
ZeroChopstick == [id |-> 0, usage |-> 0]
ZeroRequest == [type |-> "REQUEST_CREATE", philosopher |-> ZeroBase]

createRequest == [type |-> "REQUEST_CREATE", philosopher |-> ZeroBase]
updateRequest(base) == [type |-> "REQUEST_UPDATE", philosopher |-> base]
createResponse(base) == [type |-> "RESPONSE_CREATE", philosopher |-> base]
updateResponse(base) == [type |-> "RESPONSE_UPDATE", philosopher |-> base]

randomRange == MinStateTime..MaxStateTime

\* ---- semaphores ----
SemPost(chops, c) == [chops EXCEPT ![c].usage = @ + 1]
SemTake(chops, c) == [chops EXCEPT ![c].usage = @ - 1]

\* ---- getPhilosopherFromId: first slot whose id matches, or NULL ----
getPhilosopherFromId(id, phils) ==
    IF \E i \in Slots : phils[i].base.id = id
    THEN CHOOSE i \in Slots :
            /\ phils[i].base.id = id
            /\ \A j \in Slots : j < i => phils[j].base.id # id
    ELSE NULL

\* faulty variant of InitShared: maxAllowedEating initialised with one permit
InitSharedOnePermit ==
    /\ maxAllowedEating = 1
    /\ philosopherCreationProcess = 1
    /\ philosophers = [i \in Slots |-> ZeroPhilosopher]
    /\ numberPhilosophers = 0
    /\ chopsticks = [i \in Slots |-> ZeroChopstick]
    /\ numberChopsticks = 0

\* ---- initial state: attachSharedResources on a zero-filled segment ----
InitShared ==
    /\ maxAllowedEating = 0
    /\ philosopherCreationProcess = 1
    /\ philosophers = [i \in Slots |-> ZeroPhilosopher]
    /\ numberPhilosophers = 0
    /\ chopsticks = [i \in Slots |-> ZeroChopstick]
    /\ numberChopsticks = 0

\* main: the log queue is created and empty, cleanup has not started
InitParent ==
    /\ logsQueue = [removed |-> FALSE, msgs |-> << >>]
    /\ destroyed = [maxAllowedEating |-> FALSE,
                    philosopherCreationProcess |-> FALSE, chopsticks |-> {}]
    /\ cleanup = "run"

\* main in its accept loop, blocked in accept, after n connections were
\* accepted and their handler processes registered in the ServerContext
mainAfter(n) ==
    [at |-> "accept", shutdownFlag |-> 0, sigint |-> FALSE,
     numberServiceSockets |-> n, numberClients |-> n]

InitProcs(P) ==
    /\ InitParent
    /\ main = mainAfter(Cardinality(P))
    /\ pc = [h \in P |-> "idle"]
    /\ request = [h \in P |-> ZeroRequest]
    /\ philosopher = [h \in P |-> ZeroPhilosopher]
    /\ serverPhilosopher = [h \in P |-> NULL]
    /\ semArg = [h \in P |-> NULL]
    /\ toServer = [h \in P |-> << >>]
    /\ toClient = [h \in P |-> << >>]
    /\ held = [h \in P |-> {}]
    /\ permit = [h \in P |-> 0]
    /\ errorLogs = [h \in P |-> 0]

\* the server has just started: MaxProc clients have yet to connect
InitEmpty ==
    /\ InitShared
    /\ InitProcs(1..MaxProc)
    /\ client = [h \in 1..MaxProc |-> [phase |-> "new", base |-> ZeroBase]]

\* =========================================================================
\* The client (client program): addPhilosophers and philosopherThread
\* =========================================================================

\* addPhilosophers: connect and write the create request
ClientConnect(h) ==
    /\ client[h].phase = "new"
    /\ toServer' = [toServer EXCEPT ![h] = Append(@, createRequest)]
    /\ client' = [client EXCEPT ![h].phase = "creating"]
    /\ UNCHANGED parent
    /\ UNCHANGED << shared, pc, request, philosopher, serverPhilosopher, semArg, toClient, held,
                    permit, errorLogs >>

\* addPhilosophers: read the create response, start the thread THINKING
ClientCreated(h) ==
    /\ client[h].phase = "creating"
    /\ toClient[h] # << >>
    /\ Head(toClient[h]).type = "RESPONSE_CREATE"
    /\ \E t \in randomRange :
          client' = [client EXCEPT ![h] =
              [phase |-> "run",
               base |-> [id |-> Head(toClient[h]).philosopher.id,
                         state |-> THINKING, stateTimer |-> t]]]
    /\ toClient' = [toClient EXCEPT ![h] = Tail(@)]
    /\ UNCHANGED parent
    /\ UNCHANGED << shared, pc, request, philosopher, serverPhilosopher, semArg, toServer, held,
                    permit, errorLogs >>

\* the base of the client after the timer step of one loop iteration, the
\* timer of a new THINKING period being t
ClientStep(base, t) ==
    LET timer == base.stateTimer - 1 IN
    IF timer > 0 THEN [base EXCEPT !.stateTimer = timer]
    ELSE IF base.state = THINKING
         THEN [base EXCEPT !.state = HUNGRY, !.stateTimer = timer]
         ELSE [base EXCEPT !.state = THINKING, !.stateTimer = t]

\* philosopherThread: one loop iteration up to the write of the update request
ClientTick(h) ==
    /\ client[h].phase = "run"
    /\ Len(toServer[h]) < MaxPending
    /\ \E t \in randomRange :
          LET timer == client[h].base.stateTimer - 1
              next == ClientStep(client[h].base, t)
          IN  IF timer <= 0 /\ client[h].base.state = HUNGRY
              THEN \* default branch of the switch: exit(EXIT_FAILURE)
                   /\ client' = [client EXCEPT ![h].phase = "exited"]
                   /\ UNCHANGED toServer
              ELSE /\ client' = [client EXCEPT ![h] =
                          [phase |-> IF next.state = HUNGRY THEN "await" ELSE "run",
                           base |-> next]]
                   /\ toServer' = [toServer EXCEPT ![h] =
                          Append(@, updateRequest(next))]
    /\ UNCHANGED parent
    /\ UNCHANGED << shared, pc, request, philosopher, serverPhilosopher, semArg, toClient, held,
                    permit, errorLogs >>

\* philosopherThread: read the response to a HUNGRY update
ClientGranted(h) ==
    /\ client[h].phase = "await"
    /\ toClient[h] # << >>
    /\ IF Head(toClient[h]).type # "RESPONSE_UPDATE"
       THEN client' = [client EXCEPT ![h].phase = "exited"]
       ELSE \E t \in randomRange :
              client' = [client EXCEPT ![h] =
                  [phase |-> "run",
                   base |-> [@.base EXCEPT
                                !.state = Head(toClient[h]).philosopher.state,
                                !.stateTimer = t]]]
    /\ toClient' = [toClient EXCEPT ![h] = Tail(@)]
    /\ UNCHANGED parent
    /\ UNCHANGED << shared, pc, request, philosopher, serverPhilosopher, semArg, toServer, held,
                    permit, errorLogs >>

\* =========================================================================
\* createPhilosopher (with createChopstick, definePhilosopherRightChopstick)
\* =========================================================================

\* clientProcess reads a create request; createPhilosopher is entered
ReceiveCreate(h) ==
    /\ pc[h] = "idle"
    /\ toServer[h] # << >>
    /\ Head(toServer[h]).type = "REQUEST_CREATE"
    /\ request' = [request EXCEPT ![h] = Head(toServer[h])]
    /\ toServer' = [toServer EXCEPT ![h] = Tail(@)]
    /\ errorLogs' = [errorLogs EXCEPT ![h] = 0]
    /\ pc' = [pc EXCEPT ![h] = "c_lock"]
    /\ UNCHANGED parent
    /\ UNCHANGED << shared, philosopher, serverPhilosopher, semArg, client, toClient, held, permit >>

\* faulty variant of CreateLock: sem_trywait in place of sem_wait, its result
\* ignored
CreateLockUnchecked(h) ==
    /\ pc[h] = "c_lock"
    /\ philosopherCreationProcess' =
           IF philosopherCreationProcess > 0
           THEN philosopherCreationProcess - 1
           ELSE philosopherCreationProcess
    /\ pc' = [pc EXCEPT ![h] = "c_init"]
    /\ UNCHANGED parent
    /\ UNCHANGED << maxAllowedEating, philosophers, numberPhilosophers,
                    chopsticks, numberChopsticks, request, philosopher,
                    serverPhilosopher, semArg, client, toServer, toClient,
                    held, permit, errorLogs >>

\* sem_wait(&sharedResources->philosopherCreationProcess)
CreateLock(h) ==
    /\ pc[h] = "c_lock"
    /\ philosopherCreationProcess > 0
    /\ philosopherCreationProcess' = philosopherCreationProcess - 1
    /\ pc' = [pc EXCEPT ![h] = "c_init"]
    /\ UNCHANGED parent
    /\ UNCHANGED << maxAllowedEating, philosophers, numberPhilosophers,
                    chopsticks, numberChopsticks, request, philosopher, serverPhilosopher, semArg,
                    client, toServer, toClient, held, permit, errorLogs >>

\* faulty variant of createChopstick: the semaphore is initialised at 2, so
\* two processes can take the chopstick
createChopstickForTwo(id, chops) ==
    [chops EXCEPT ![id] = [id |-> id, usage |-> 2]]

\* faulty variant of createChopstick: the chopstick is given the index of
\* its slot, id - 1, as its id
createChopstickZeroBased(id, chops) ==
    [chops EXCEPT ![id] = [id |-> id - 1, usage |-> 1]]

\* createChopstick: the chopstick copied into slot id - 1, semaphore at 1
createChopstick(id, chops) ==
    [chops EXCEPT ![id] = [id |-> id, usage |-> 1]]

\* faulty variant of newIdentity: the count before the join is the identity
newIdentityFromZero(lastPhilosopherId) == lastPhilosopherId

\* philosopher.base.id = lastPhilosopherId + 1
newIdentity(lastPhilosopherId) == lastPhilosopherId + 1

\* the identity, the zeroed local philosopher and its left chopstick; no
\* test of the identity against MAX_PHILOSOPHERS is made, and the behaviour
\* after a write beyond the arrays is undefined: the model stops the process
CreateInit(h) ==
    /\ pc[h] = "c_init"
    /\ LET lastPhilosopherId == numberPhilosophers
           id == newIdentity(lastPhilosopherId)
       IN  IF id > MAX_PHILOSOPHERS
           THEN \* createChopstick copies the chopstick beyond the array
                /\ pc' = [pc EXCEPT ![h] = "overflow"]
                /\ UNCHANGED << chopsticks, philosopher >>
           ELSE /\ chopsticks' = createChopstick(id, chopsticks)
                /\ philosopher' = [philosopher EXCEPT ![h] =
                       [ZeroPhilosopher EXCEPT
                           !.base.id = id, !.leftChopstick = id]]
                /\ pc' = [pc EXCEPT ![h] =
                       IF lastPhilosopherId > 0 THEN "c_define"
                       ELSE "c_append"]
    /\ UNCHANGED parent
    /\ UNCHANGED << maxAllowedEating, philosopherCreationProcess, philosophers,
                    numberPhilosophers, numberChopsticks, request,
                    serverPhilosopher, semArg, client, toServer, toClient,
                    held, permit, errorLogs >>

\* faulty variant of linkFirstToSecond: the second join leaves the right
\* reference of the first philosopher as it is
linkFirstToNothing(phils, left) == phils

\* faulty variant of linkFirstToSecond: the right chopstick is written to
\* philosophers[1], the slot of the philosopher being created
linkSecondToSecond(phils, left) ==
    [phils EXCEPT ![2].rightChopstick = left]

\* sharedResources->philosophers[0].rightChopstick = philosopher->leftChopstick
linkFirstToSecond(phils, left) ==
    [phils EXCEPT ![1].rightChopstick = left]

\* definePhilosopherRightChopstick up to the sem_wait on the old right chopstick
DefineRight(h) ==
    /\ pc[h] = "c_define"
    /\ LET lastPhilosopherId == numberPhilosophers
           firstChopstick == 1
           me == [philosopher[h] EXCEPT !.rightChopstick = firstChopstick]
       IN  /\ philosopher' = [philosopher EXCEPT ![h] = me]
           /\ IF me.base.id = 2
              THEN /\ philosophers' =
                          linkFirstToSecond(philosophers, me.leftChopstick)
                   /\ semArg' = semArg
                   /\ pc' = [pc EXCEPT ![h] = "c_append"]
              ELSE IF me.base.id > 2
              THEN /\ semArg' = [semArg EXCEPT ![h] =
                          philosophers[lastPhilosopherId].rightChopstick]
                   /\ philosophers' = philosophers
                   /\ pc' = [pc EXCEPT ![h] = "c_wait"]
              ELSE /\ UNCHANGED << philosophers, semArg >>
                   /\ pc' = [pc EXCEPT ![h] = "c_append"]
    /\ UNCHANGED parent
    /\ UNCHANGED << maxAllowedEating, philosopherCreationProcess,
                    numberPhilosophers, chopsticks, numberChopsticks, request,
                    serverPhilosopher, client, toServer, toClient, held,
                    permit, errorLogs >>

\* sem_wait(&previousPhlosopherOldRightChopstick->usage)
DefineWait(h) ==
    /\ pc[h] = "c_wait"
    /\ chopsticks[semArg[h]].usage > 0
    /\ chopsticks' = SemTake(chopsticks, semArg[h])
    /\ held' = [held EXCEPT ![h] = @ \cup {semArg[h]}]
    /\ pc' = [pc EXCEPT ![h] = "c_swap"]
    /\ UNCHANGED parent
    /\ UNCHANGED << maxAllowedEating, philosopherCreationProcess, philosophers,
                    numberPhilosophers, numberChopsticks, request, philosopher, serverPhilosopher,
                    semArg, client, toServer, toClient, permit, errorLogs >>

\* faulty variant of linkPreviousToNew: the index is one too low, the
\* philosopher before the previous last one is repointed once more
linkBeforePreviousToNew(phils, last, left) ==
    [phils EXCEPT ![last - 1].rightChopstick = left]

\* faulty variant of linkPreviousToNew: the new chopstick is written to the
\* left reference of the previous last philosopher
linkPreviousLeftToNew(phils, last, left) ==
    [phils EXCEPT ![last].leftChopstick = left]

\* sharedResources->philosophers[lastPhilosopherId - 1].rightChopstick =
\*     philosopher->leftChopstick
linkPreviousToNew(phils, last, left) ==
    [phils EXCEPT ![last].rightChopstick = left]

\* the previous last philosopher's right chopstick becomes the new chopstick
DefineSwap(h) ==
    /\ pc[h] = "c_swap"
    /\ philosophers' = linkPreviousToNew(philosophers, numberPhilosophers,
                                         philosopher[h].leftChopstick)
    /\ pc' = [pc EXCEPT ![h] = "c_post"]
    /\ UNCHANGED parent
    /\ UNCHANGED << maxAllowedEating, philosopherCreationProcess,
                    numberPhilosophers, chopsticks, numberChopsticks, request,
                    philosopher, serverPhilosopher, semArg, client, toServer, toClient, held,
                    permit, errorLogs >>

\* faulty variant of DefinePost: the semaphore posted is the one the previous
\* last philosopher's right reference points to after the write
DefinePostReread(h) ==
    /\ pc[h] = "c_post"
    /\ LET c == philosophers[numberPhilosophers].rightChopstick
       IN  /\ chopsticks' = SemPost(chopsticks, c)
           /\ held' = [held EXCEPT ![h] = @ \ {c}]
    /\ semArg' = [semArg EXCEPT ![h] = NULL]
    /\ pc' = [pc EXCEPT ![h] = "c_append"]
    /\ UNCHANGED parent
    /\ UNCHANGED << maxAllowedEating, philosopherCreationProcess, philosophers,
                    numberPhilosophers, numberChopsticks, request, philosopher, serverPhilosopher,
                    client, toServer, toClient, permit, errorLogs >>

\* sem_post(&previousPhlosopherOldRightChopstick->usage)
DefinePost(h) ==
    /\ pc[h] = "c_post"
    /\ chopsticks' = SemPost(chopsticks, semArg[h])
    /\ held' = [held EXCEPT ![h] = @ \ {semArg[h]}]
    /\ semArg' = [semArg EXCEPT ![h] = NULL]
    /\ pc' = [pc EXCEPT ![h] = "c_append"]
    /\ UNCHANGED parent
    /\ UNCHANGED << maxAllowedEating, philosopherCreationProcess, philosophers,
                    numberPhilosophers, numberChopsticks, request, philosopher, serverPhilosopher,
                    client, toServer, toClient, permit, errorLogs >>

\* faulty variant of appendPhilosopher: the philosopher is copied over the
\* entry of the previous last philosopher
appendOverLast(phils, last, p) ==
    IF last = 0 THEN [phils EXCEPT ![1] = p] ELSE [phils EXCEPT ![last] = p]

\* the local philosopher copied to philosophers[lastPhilosopherId], the slot
\* after the last philosopher
appendPhilosopher(phils, last, p) == [phils EXCEPT ![last + 1] = p]

\* sharedResources->philosophers[lastPhilosopherId] = philosopher
CreateAppend(h) ==
    /\ pc[h] = "c_append"
    /\ philosophers' = appendPhilosopher(philosophers, numberPhilosophers,
                                         philosopher[h])
    /\ pc' = [pc EXCEPT ![h] = "c_count"]
    /\ UNCHANGED parent
    /\ UNCHANGED << maxAllowedEating, philosopherCreationProcess,
                    numberPhilosophers, chopsticks, numberChopsticks, request,
                    philosopher, serverPhilosopher, semArg, client, toServer, toClient, held,
                    permit, errorLogs >>

\* sharedResources->numberPhilosophers += 1
CreateCount(h) ==
    /\ pc[h] = "c_count"
    /\ numberPhilosophers' = numberPhilosophers + 1
    /\ pc' = [pc EXCEPT ![h] = "c_even"]
    /\ UNCHANGED parent
    /\ UNCHANGED << maxAllowedEating, philosopherCreationProcess, philosophers,
                    chopsticks, numberChopsticks, request, philosopher, serverPhilosopher, semArg,
                    client, toServer, toClient, held, permit, errorLogs >>

\* faulty variant of EvenPost: the permit is posted at every join
AlwaysPost(n, sem) == sem + 1

\* faulty variant of EvenPost: the permit is posted when the new count is odd
OddPost(n, sem) == IF n % 2 = 1 THEN sem + 1 ELSE sem

\* the new count is even: sem_post(&sharedResources->maxAllowedEating)
EvenPost(n, sem) == IF n % 2 = 0 THEN sem + 1 ELSE sem

CreateEven(h) ==
    /\ pc[h] = "c_even"
    /\ maxAllowedEating' = EvenPost(numberPhilosophers, maxAllowedEating)
    /\ pc' = [pc EXCEPT ![h] = "c_unlock"]
    /\ UNCHANGED parent
    /\ UNCHANGED << philosopherCreationProcess, philosophers,
                    numberPhilosophers, chopsticks, numberChopsticks, request,
                    philosopher, serverPhilosopher, semArg, client, toServer, toClient, held,
                    permit, errorLogs >>

\* sem_post(&philosopherCreationProcess), return; manageCreateRequest writes
\* the create response
CreateUnlock(h) ==
    /\ pc[h] = "c_unlock"
    /\ philosopherCreationProcess' = philosopherCreationProcess + 1
    /\ toClient' = [toClient EXCEPT ![h] =
           Append(@, createResponse(philosopher[h].base))]
    /\ philosopher' = [philosopher EXCEPT ![h] = ZeroPhilosopher]
    /\ request' = [request EXCEPT ![h] = ZeroRequest]
    /\ pc' = [pc EXCEPT ![h] = "idle"]
    /\ UNCHANGED parent
    /\ UNCHANGED << maxAllowedEating, philosophers, numberPhilosophers,
                    chopsticks, numberChopsticks, serverPhilosopher, semArg,
                    client, toServer, held, permit, errorLogs >>

\* =========================================================================
\* updatePhilosopher
\* =========================================================================

\* faulty variant of overwriteBase: the timer is copied and the state is not
overwriteTimer(phils, i, base) ==
    [phils EXCEPT ![i].base.stateTimer = base.stateTimer]

\* serverPhilosopher->base = philosopher
overwriteBase(phils, i, base) ==
    [phils EXCEPT ![i].base = base]

\* faulty variant of Releases: every THINKING update posts the chopsticks and
\* the gate
ReleasesAlways(incoming, stored) == incoming.state = THINKING

\* updatePhilosopher: the update is the EATING -> THINKING transition
Releases(incoming, stored) ==
    incoming.state = THINKING /\ stored.state = EATING

\* clientProcess reads an update request; updatePhilosopher up to its first
\* semaphore operation: the lookup, the branch on the incoming state and the
\* overwrite of the stored base
ReceiveUpdate(h) ==
    /\ pc[h] = "idle"
    /\ toServer[h] # << >>
    /\ Head(toServer[h]).type = "REQUEST_UPDATE"
    /\ toServer' = [toServer EXCEPT ![h] = Tail(@)]
    /\ LET req == Head(toServer[h])
           incoming == req.philosopher
           found == getPhilosopherFromId(incoming.id, philosophers)
       IN  IF found = NULL
           THEN \* not found: one error record, return NULL
                /\ errorLogs' = [errorLogs EXCEPT ![h] = 1]
                /\ UNCHANGED << philosophers, request, serverPhilosopher, pc >>
           ELSE /\ errorLogs' = [errorLogs EXCEPT ![h] = 0]
                /\ IF Releases(incoming, philosophers[found].base)
                   THEN \* EATING -> THINKING: the releases come first
                        /\ request' = [request EXCEPT ![h] = req]
                        /\ serverPhilosopher' =
                               [serverPhilosopher EXCEPT ![h] = found]
                        /\ pc' = [pc EXCEPT ![h] = "u_postLeft"]
                        /\ UNCHANGED philosophers
                   ELSE IF incoming.state = HUNGRY
                   THEN /\ philosophers' = [philosophers EXCEPT
                               ![found].base = incoming]
                        /\ request' = [request EXCEPT ![h] = req]
                        /\ serverPhilosopher' =
                               [serverPhilosopher EXCEPT ![h] = found]
                        /\ pc' = [pc EXCEPT ![h] = "u_tryGate"]
                   ELSE \* THINKING or EATING: plain overwrite, return NULL
                        /\ philosophers' = overwriteBase(philosophers, found,
                                                         incoming)
                        /\ UNCHANGED << request, serverPhilosopher, pc >>
    /\ UNCHANGED parent
    /\ UNCHANGED << maxAllowedEating, philosopherCreationProcess,
                    numberPhilosophers, chopsticks, numberChopsticks,
                    philosopher, semArg, client, toClient, held, permit >>

\* the table entry updatePhilosopher found for the request it is serving
Me(h) == serverPhilosopher[h]

\* ---- EATING -> THINKING ----
\* sem_post on the chopstick pointer c read from the table entry; a NULL
\* pointer faults
PostChopstick(h, c, next) ==
    IF c = NULL
    THEN /\ pc' = [pc EXCEPT ![h] = "segv"]
         /\ UNCHANGED << chopsticks, held >>
    ELSE /\ chopsticks' = SemPost(chopsticks, c)
         /\ held' = [held EXCEPT ![h] = @ \ {c}]
         /\ pc' = [pc EXCEPT ![h] = next]

\* sem_post(&serverPhilosopher->leftChopstick->usage)
PostLeft(h) ==
    /\ pc[h] = "u_postLeft"
    /\ PostChopstick(h, philosophers[Me(h)].leftChopstick, "u_postRight")
    /\ UNCHANGED parent
    /\ UNCHANGED << maxAllowedEating, philosopherCreationProcess, philosophers,
                    numberPhilosophers, numberChopsticks, request, philosopher, serverPhilosopher,
                    semArg, client, toServer, toClient, permit, errorLogs >>

\* sem_post(&serverPhilosopher->rightChopstick->usage)
PostRight(h) ==
    /\ pc[h] = "u_postRight"
    /\ PostChopstick(h, philosophers[Me(h)].rightChopstick, "u_postGate")
    /\ UNCHANGED parent
    /\ UNCHANGED << maxAllowedEating, philosopherCreationProcess, philosophers,
                    numberPhilosophers, numberChopsticks, request, philosopher, serverPhilosopher,
                    semArg, client, toServer, toClient, permit, errorLogs >>

\* faulty variant of PostGate: the stored base is overwritten before the
\* permit is returned
PostGateAfterOverwrite(h) ==
    /\ pc[h] = "u_postGate"
    /\ philosophers' = overwriteBase(philosophers, Me(h),
                                     request[h].philosopher)
    /\ maxAllowedEating' = maxAllowedEating + 1
    /\ permit' = [permit EXCEPT ![h] = @ - 1]
    /\ pc' = [pc EXCEPT ![h] = "u_overwrite"]
    /\ UNCHANGED parent
    /\ UNCHANGED << philosopherCreationProcess,
                    numberPhilosophers, chopsticks, numberChopsticks, request,
                    philosopher, serverPhilosopher, semArg, client, toServer, toClient, held,
                    errorLogs >>

\* sem_post(&sharedResources->maxAllowedEating)
PostGate(h) ==
    /\ pc[h] = "u_postGate"
    /\ maxAllowedEating' = maxAllowedEating + 1
    /\ permit' = [permit EXCEPT ![h] = @ - 1]
    /\ pc' = [pc EXCEPT ![h] = "u_overwrite"]
    /\ UNCHANGED parent
    /\ UNCHANGED << philosopherCreationProcess, philosophers,
                    numberPhilosophers, chopsticks, numberChopsticks, request,
                    philosopher, serverPhilosopher, semArg, client, toServer, toClient, held,
                    errorLogs >>

\* serverPhilosopher->base = philosopher; return NULL
Overwrite(h) ==
    /\ pc[h] = "u_overwrite"
    /\ philosophers' = overwriteBase(philosophers, Me(h),
                                     request[h].philosopher)
    /\ request' = [request EXCEPT ![h] = ZeroRequest]
    /\ serverPhilosopher' = [serverPhilosopher EXCEPT ![h] = NULL]
    /\ pc' = [pc EXCEPT ![h] = "idle"]
    /\ UNCHANGED parent
    /\ UNCHANGED << maxAllowedEating, philosopherCreationProcess,
                    numberPhilosophers, chopsticks, numberChopsticks,
                    philosopher, semArg, client, toServer, toClient, held,
                    permit, errorLogs >>

\* ---- HUNGRY ----
\* faulty variant of TryGate: the handler goes on to the chopsticks without
\* waiting for a permit when sem_trywait returns EAGAIN
TryGateUnchecked(h) ==
    /\ pc[h] = "u_tryGate"
    /\ maxAllowedEating' =
           IF maxAllowedEating > 0 THEN maxAllowedEating - 1
           ELSE maxAllowedEating
    /\ permit' = [permit EXCEPT ![h] = @ + 1]
    /\ pc' = [pc EXCEPT ![h] = "u_tryLeft"]
    /\ UNCHANGED parent
    /\ UNCHANGED << philosopherCreationProcess, philosophers,
                    numberPhilosophers, chopsticks, numberChopsticks, request,
                    philosopher, serverPhilosopher, semArg, client, toServer,
                    toClient, held, errorLogs >>

\* sem_trywait(&maxAllowedEating): taken, or EAGAIN and the call of sem_wait
TryGate(h) ==
    /\ pc[h] = "u_tryGate"
    /\ IF maxAllowedEating > 0
       THEN /\ maxAllowedEating' = maxAllowedEating - 1
            /\ permit' = [permit EXCEPT ![h] = @ + 1]
            /\ pc' = [pc EXCEPT ![h] = "u_tryLeft"]
       ELSE /\ UNCHANGED << maxAllowedEating, permit >>
            /\ pc' = [pc EXCEPT ![h] = "u_waitGate"]
    /\ UNCHANGED parent
    /\ UNCHANGED << philosopherCreationProcess, philosophers,
                    numberPhilosophers, chopsticks, numberChopsticks, request,
                    philosopher, serverPhilosopher, semArg, client, toServer, toClient, held,
                    errorLogs >>

\* faulty variant of WaitGate: the return of sem_wait is taken as a permit
\* even when the semaphore had none to give
WaitGateUnchecked(h) ==
    /\ pc[h] = "u_waitGate"
    /\ maxAllowedEating' = IF maxAllowedEating > 0 THEN maxAllowedEating - 1
                                                   ELSE maxAllowedEating
    /\ permit' = [permit EXCEPT ![h] = @ + 1]
    /\ pc' = [pc EXCEPT ![h] = "u_tryLeft"]
    /\ UNCHANGED parent
    /\ UNCHANGED << philosopherCreationProcess, philosophers,
                    numberPhilosophers, chopsticks, numberChopsticks, request,
                    philosopher, serverPhilosopher, semArg, client, toServer, toClient, held,
                    errorLogs >>

\* sem_wait(&maxAllowedEating) returns
WaitGate(h) ==
    /\ pc[h] = "u_waitGate"
    /\ maxAllowedEating > 0
    /\ maxAllowedEating' = maxAllowedEating - 1
    /\ permit' = [permit EXCEPT ![h] = @ + 1]
    /\ pc' = [pc EXCEPT ![h] = "u_tryLeft"]
    /\ UNCHANGED parent
    /\ UNCHANGED << philosopherCreationProcess, philosophers,
                    numberPhilosophers, chopsticks, numberChopsticks, request,
                    philosopher, serverPhilosopher, semArg, client, toServer, toClient, held,
                    errorLogs >>

\* faulty variant of chopstickOf: the right chopstick is asked for first and
\* the left one second
chopstickOfOtherSide(p, side) ==
    IF side = "left" THEN p.rightChopstick ELSE p.leftChopstick

\* the chopstick pointer of the table entry p that sem_trywait is called on
chopstickOf(p, side) ==
    IF side = "left" THEN p.leftChopstick ELSE p.rightChopstick

\* sem_trywait on the chopstick pointer c read from the table entry: taken
\* (pc becomes got), or EAGAIN and sem_wait is called with the pointer read
\* again (pc becomes wait); a NULL pointer faults
TryChopstick(h, side, got, wait) ==
    LET c == chopstickOf(philosophers[Me(h)], side)
    IN  IF c = NULL
        THEN /\ pc' = [pc EXCEPT ![h] = "segv"]
             /\ UNCHANGED << chopsticks, held >>
        ELSE IF chopsticks[c].usage > 0
        THEN /\ chopsticks' = SemTake(chopsticks, c)
             /\ held' = [held EXCEPT ![h] = @ \cup {c}]
             /\ pc' = [pc EXCEPT ![h] = got]
        ELSE /\ pc' = [pc EXCEPT ![h] = wait]
             /\ UNCHANGED << chopsticks, held >>

TryLeft(h) ==
    /\ pc[h] = "u_tryLeft"
    /\ TryChopstick(h, "left", "u_tryRight", "u_callLeft")
    /\ UNCHANGED parent
    /\ UNCHANGED << maxAllowedEating, philosopherCreationProcess, philosophers,
                    numberPhilosophers, numberChopsticks, request, philosopher, serverPhilosopher,
                    semArg, client, toServer, toClient, permit, errorLogs >>

TryRight(h) ==
    /\ pc[h] = "u_tryRight"
    /\ TryChopstick(h, "right", "u_grant", "u_callRight")
    /\ UNCHANGED parent
    /\ UNCHANGED << maxAllowedEating, philosopherCreationProcess, philosophers,
                    numberPhilosophers, numberChopsticks, request, philosopher, serverPhilosopher,
                    semArg, client, toServer, toClient, permit, errorLogs >>

\* the argument of the blocking sem_wait is evaluated: the pointer is read
\* from the table entry when sem_wait is called
CallWait(h, side, wait) ==
    /\ semArg' = [semArg EXCEPT ![h] =
           IF side = "left" THEN philosophers[Me(h)].leftChopstick
                            ELSE philosophers[Me(h)].rightChopstick]
    /\ pc' = [pc EXCEPT ![h] = wait]

CallLeft(h) ==
    /\ pc[h] = "u_callLeft"
    /\ CallWait(h, "left", "u_waitLeft")
    /\ UNCHANGED parent
    /\ UNCHANGED << shared, request, philosopher, serverPhilosopher, client, toServer, toClient,
                    held, permit, errorLogs >>

CallRight(h) ==
    /\ pc[h] = "u_callRight"
    /\ CallWait(h, "right", "u_waitRight")
    /\ UNCHANGED parent
    /\ UNCHANGED << shared, request, philosopher, serverPhilosopher, client, toServer, toClient,
                    held, permit, errorLogs >>

\* the blocked sem_wait returns with the semaphore it was called with
WaitChopstick(h, got) ==
    /\ chopsticks[semArg[h]].usage > 0
    /\ chopsticks' = SemTake(chopsticks, semArg[h])
    /\ held' = [held EXCEPT ![h] = @ \cup {semArg[h]}]
    /\ semArg' = [semArg EXCEPT ![h] = NULL]
    /\ pc' = [pc EXCEPT ![h] = got]

WaitLeft(h) ==
    /\ pc[h] = "u_waitLeft"
    /\ WaitChopstick(h, "u_tryRight")
    /\ UNCHANGED parent
    /\ UNCHANGED << maxAllowedEating, philosopherCreationProcess, philosophers,
                    numberPhilosophers, numberChopsticks, request, philosopher, serverPhilosopher,
                    client, toServer, toClient, permit, errorLogs >>

WaitRight(h) ==
    /\ pc[h] = "u_waitRight"
    /\ WaitChopstick(h, "u_grant")
    /\ UNCHANGED parent
    /\ UNCHANGED << maxAllowedEating, philosopherCreationProcess, philosophers,
                    numberPhilosophers, numberChopsticks, request, philosopher, serverPhilosopher,
                    client, toServer, toClient, permit, errorLogs >>

\* faulty variant of Grant: updatePhilosopher returns NULL after the grant and
\* manageUpdateRequest writes no response
GrantUnanswered(h) ==
    /\ pc[h] = "u_grant"
    /\ philosophers' = [philosophers EXCEPT ![Me(h)].base =
           [@ EXCEPT !.state = EATING, !.stateTimer = 0]]
    /\ request' = [request EXCEPT ![h] = ZeroRequest]
    /\ serverPhilosopher' = [serverPhilosopher EXCEPT ![h] = NULL]
    /\ pc' = [pc EXCEPT ![h] = "idle"]
    /\ UNCHANGED parent
    /\ UNCHANGED << maxAllowedEating, philosopherCreationProcess,
                    numberPhilosophers, chopsticks, numberChopsticks,
                    philosopher, semArg, client, toServer, toClient, held,
                    permit, errorLogs >>

\* state EATING, timer 0, return serverPhilosopher; manageUpdateRequest writes
\* the update response
Grant(h) ==
    /\ pc[h] = "u_grant"
    /\ LET granted == [philosophers[Me(h)].base EXCEPT
                          !.state = EATING, !.stateTimer = 0]
       IN  /\ philosophers' = [philosophers EXCEPT ![Me(h)].base = granted]
           /\ toClient' = [toClient EXCEPT ![h] =
                  Append(@, updateResponse(granted))]
    /\ request' = [request EXCEPT ![h] = ZeroRequest]
    /\ serverPhilosopher' = [serverPhilosopher EXCEPT ![h] = NULL]
    /\ pc' = [pc EXCEPT ![h] = "idle"]
    /\ UNCHANGED parent
    /\ UNCHANGED << maxAllowedEating, philosopherCreationProcess,
                    numberPhilosophers, chopsticks, numberChopsticks,
                    philosopher, semArg, client, toServer, held, permit,
                    errorLogs >>

\* =========================================================================
\* specifications
\* =========================================================================
Next ==
    \/ \E h \in Procs : ClientConnect(h)
    \/ \E h \in Procs : ClientCreated(h)
    \/ \E h \in Procs : ClientTick(h)
    \/ \E h \in Procs : ClientGranted(h)
    \/ \E h \in Procs : ReceiveCreate(h)
    \/ \E h \in Procs : CreateLock(h)
    \/ \E h \in Procs : CreateInit(h)
    \/ \E h \in Procs : DefineRight(h)
    \/ \E h \in Procs : DefineWait(h)
    \/ \E h \in Procs : DefineSwap(h)
    \/ \E h \in Procs : DefinePost(h)
    \/ \E h \in Procs : CreateAppend(h)
    \/ \E h \in Procs : CreateCount(h)
    \/ \E h \in Procs : CreateEven(h)
    \/ \E h \in Procs : CreateUnlock(h)
    \/ \E h \in Procs : ReceiveUpdate(h)
    \/ \E h \in Procs : PostLeft(h)
    \/ \E h \in Procs : PostRight(h)
    \/ \E h \in Procs : PostGate(h)
    \/ \E h \in Procs : Overwrite(h)
    \/ \E h \in Procs : TryGate(h)
    \/ \E h \in Procs : WaitGate(h)
    \/ \E h \in Procs : TryLeft(h)
    \/ \E h \in Procs : CallLeft(h)
    \/ \E h \in Procs : WaitLeft(h)
    \/ \E h \in Procs : TryRight(h)
    \/ \E h \in Procs : CallRight(h)
    \/ \E h \in Procs : WaitRight(h)
    \/ \E h \in Procs : Grant(h)

\* the server from its start, MaxProc clients joining and running
SpecEmpty == InitEmpty /\ [][Next]_vars

\* the shared resources after n completed createPhilosopher calls and no
\* update: philosopher i has chopstick i at its left; the right chopstick of
\* philosopher i < n is chopstick i + 1, that of philosopher n is chopstick 1
TableAfter(n) ==
    /\ maxAllowedEating = n \div 2
    /\ philosopherCreationProcess = 1
    /\ philosophers = [i \in Slots |->
           IF i > n THEN ZeroPhilosopher
           ELSE [base |-> [ZeroBase EXCEPT !.id = i],
                 leftChopstick |-> i,
                 rightChopstick |-> IF n = 1 THEN NULL
                                    ELSE IF i < n THEN i + 1 ELSE 1]]
    /\ numberPhilosophers = n
    /\ chopsticks = [i \in Slots |->
           IF i > n THEN ZeroChopstick ELSE [id |-> i, usage |-> 1]]
    /\ numberChopsticks = 0

\* the clients of a table of n philosophers, their threads just started, and
\* the clients of P that have not connected yet
ClientsAfter(n, P) ==
    \E t \in [1..n -> randomRange] :
        client = [h \in P |->
            IF h <= n
            THEN [phase |-> "run",
                  base |-> [id |-> h, state |-> THINKING, stateTimer |-> t[h]]]
            ELSE [phase |-> "new", base |-> ZeroBase]]

\* a table of JoinedAtStart philosophers whose threads have just started, and
\* one more client that joins while they run
JoinedAtStart == 3

InitTable ==
    /\ TableAfter(JoinedAtStart)
    /\ InitProcs(1..(JoinedAtStart + 1))
    /\ ClientsAfter(JoinedAtStart, 1..(JoinedAtStart + 1))

\* the server from its start, and from a table of JoinedAtStart philosophers
Init == InitEmpty \/ InitTable

Spec == Init /\ [][Next]_vars

\* ---- the four-philosopher scenario up to the first release ----
ScenarioPhilosophers == 4

\* ScenarioPhilosophers philosophers have joined and their threads have just
\* started THINKING
InitScenario ==
    /\ TableAfter(ScenarioPhilosophers)
    /\ InitProcs(1..ScenarioPhilosophers)
    /\ ClientsAfter(ScenarioPhilosophers, 1..ScenarioPhilosophers)

\* every step of the clients and of the handlers except the releases of an
\* EATING -> THINKING update: the behaviours in which no philosopher has
\* returned to THINKING yet.  A blocked sem_wait returns only after a post,
\* and the releases are the only posts here, so WaitGate, WaitLeft and
\* WaitRight have no step to take (C9_TwoPermitsOneOrTwoEat checks that they
\* are never enabled)
NextBeforeRelease ==
    \/ \E h \in Procs : ClientTick(h)
    \/ \E h \in Procs : ClientGranted(h)
    \/ \E h \in Procs : ReceiveUpdate(h)
    \/ \E h \in Procs : TryGate(h)
    \/ \E h \in Procs : TryLeft(h)
    \/ \E h \in Procs : CallLeft(h)
    \/ \E h \in Procs : TryRight(h)
    \/ \E h \in Procs : CallRight(h)
    \/ \E h \in Procs : Grant(h)

SpecScenario == InitScenario /\ [][NextBeforeRelease]_vars

\* ---- a table of two philosophers and one more connection whose client
\* ---- writes updates for identities that have not joined
RogueTable == 2
RogueIds == {0, RogueTable + 1, MAX_PHILOSOPHERS}

\* the client of connection h writes an update request for an identity of
\* RogueIds
RogueSend(h) ==
    /\ client[h].phase = "rogue"
    /\ Len(toServer[h]) < MaxPending
    /\ \E id \in RogueIds, st \in {THINKING, HUNGRY, EATING},
          t \in randomRange :
          toServer' = [toServer EXCEPT ![h] = Append(@,
              updateRequest([id |-> id, state |-> st, stateTimer |-> t]))]
    /\ UNCHANGED parent
    /\ UNCHANGED << shared, pc, request, philosopher, serverPhilosopher,
                    semArg, client, toClient, held, permit, errorLogs >>

InitRogue ==
    /\ TableAfter(RogueTable)
    /\ InitProcs(1..(RogueTable + 1))
    /\ \E t \in [1..RogueTable -> randomRange] :
          client = [h \in 1..(RogueTable + 1) |->
              IF h <= RogueTable
              THEN [phase |-> "run",
                    base |-> [id |-> h, state |-> THINKING,
                              stateTimer |-> t[h]]]
              ELSE [phase |-> "rogue", base |-> ZeroBase]]

\* the steps of the clients and of the update handlers; no client joins, and
\* with one permit for two philosophers no handler finds a chopstick taken
NextRogue ==
    \/ \E h \in Procs : RogueSend(h)
    \/ \E h \in Procs : ClientTick(h)
    \/ \E h \in Procs : ClientGranted(h)
    \/ \E h \in Procs : ReceiveUpdate(h)
    \/ \E h \in Procs : PostLeft(h)
    \/ \E h \in Procs : PostRight(h)
    \/ \E h \in Procs : PostGate(h)
    \/ \E h \in Procs : Overwrite(h)
    \/ \E h \in Procs : TryGate(h)
    \/ \E h \in Procs : WaitGate(h)
    \/ \E h \in Procs : TryLeft(h)
    \/ \E h \in Procs : TryRight(h)
    \/ \E h \in Procs : Grant(h)

SpecRogue == InitRogue /\ [][NextRogue]_vars

\* ---- a table of two philosophers and one more connection whose client
\* ---- writes one HUNGRY update for an identity that has already joined
RepeatTable == 2

\* the client of connection h writes a HUNGRY update for a joined identity
RepeatSend(h) ==
    /\ client[h].phase = "repeat"
    /\ Len(toServer[h]) < MaxPending
    /\ \E id \in 1..RepeatTable :
          LET base == [id |-> id, state |-> HUNGRY, stateTimer |-> 0]
          IN  /\ toServer' = [toServer EXCEPT ![h] =
                                 Append(@, updateRequest(base))]
              /\ client' = [client EXCEPT ![h] =
                                 [phase |-> "sent", base |-> base]]
    /\ UNCHANGED parent
    /\ UNCHANGED << shared, pc, request, philosopher, serverPhilosopher,
                    semArg, toClient, held, permit, errorLogs >>

InitRepeat ==
    /\ TableAfter(RepeatTable)
    /\ InitProcs(1..(RepeatTable + 1))
    /\ \E t \in [1..RepeatTable -> randomRange] :
          client = [h \in 1..(RepeatTable + 1) |->
              IF h <= RepeatTable
              THEN [phase |-> "run",
                    base |-> [id |-> h, state |-> THINKING,
                              stateTimer |-> t[h]]]
              ELSE [phase |-> "repeat", base |-> ZeroBase]]

\* the steps of the clients and of the update handlers; no client joins, and
\* with one permit for two philosophers no handler finds a chopstick taken
NextRepeat ==
    \/ \E h \in Procs : RepeatSend(h)
    \/ \E h \in Procs : ClientTick(h)
    \/ \E h \in Procs : ClientGranted(h)
    \/ \E h \in Procs : ReceiveUpdate(h)
    \/ \E h \in Procs : PostLeft(h)
    \/ \E h \in Procs : PostRight(h)
    \/ \E h \in Procs : PostGate(h)
    \/ \E h \in Procs : Overwrite(h)
    \/ \E h \in Procs : TryGate(h)
    \/ \E h \in Procs : WaitGate(h)
    \/ \E h \in Procs : TryLeft(h)
    \/ \E h \in Procs : TryRight(h)
    \/ \E h \in Procs : Grant(h)

SpecRepeat == InitRepeat /\ [][NextRepeat]_vars

\* ---- the log queue: a table of two philosophers whose clients write
\* ---- THINKING updates, the log calls of the handlers and the log threads
SERVER_LOG_TYPE == 1
LogTable == 2
\* the number of Log records the message queue holds before msgsnd blocks
LogsCapacity == 2

\* the type of the records of the handler process h: its pid
ClientLogType(h) == SERVER_LOG_TYPE + h

\* msgsnd(logsQueueId, &log, LOG_BUFFER_SIZE, 0) returns: the queue has room,
\* or it has been removed and the call fails
msgsndReturns(q) == q.removed \/ Len(q.msgs) < LogsCapacity
\* the queue after msgsnd has returned
msgsnd(q, type) ==
    IF q.removed THEN q ELSE [q EXCEPT !.msgs = Append(@, type)]

\* the queue after msgrcv has taken its k-th record
msgrcv(q, k) ==
    [q EXCEPT !.msgs = [j \in 1..(Len(@) - 1) |->
                           IF j < k THEN @[j] ELSE @[j + 1]]]

\* philosopherThread while THINKING: a timer tick and the write of the update
ThinkSend(h) ==
    /\ client[h].phase = "think"
    /\ Len(toServer[h]) < MaxPending
    /\ \E t \in 1..MaxStateTime :
          LET base == [client[h].base EXCEPT !.stateTimer = t]
          IN  /\ client' = [client EXCEPT ![h].base = base]
              /\ toServer' = [toServer EXCEPT ![h] =
                                 Append(@, updateRequest(base))]
    /\ UNCHANGED parent
    /\ UNCHANGED << shared, pc, request, philosopher, serverPhilosopher,
                    semArg, toClient, held, permit, errorLogs >>

\* updatePhilosopher, THINKING update of a philosopher not stored EATING, up
\* to the call of logClientAction: the lookup and the overwrite of the base
ReceiveThinking(h) ==
    /\ pc[h] = "idle"
    /\ toServer[h] # << >>
    /\ Head(toServer[h]).type = "REQUEST_UPDATE"
    /\ LET incoming == Head(toServer[h]).philosopher
           found == getPhilosopherFromId(incoming.id, philosophers)
       IN  /\ found # NULL
           /\ incoming.state = THINKING
           /\ ~Releases(incoming, philosophers[found].base)
           /\ philosophers' = overwriteBase(philosophers, found, incoming)
    /\ toServer' = [toServer EXCEPT ![h] = Tail(@)]
    /\ pc' = [pc EXCEPT ![h] = "u_log"]
    /\ errorLogs' = [errorLogs EXCEPT ![h] = 0]
    /\ UNCHANGED parent
    /\ UNCHANGED << maxAllowedEating, philosopherCreationProcess,
                    numberPhilosophers, chopsticks, numberChopsticks, request,
                    philosopher, serverPhilosopher, semArg, client, toClient,
                    held, permit >>

\* logClientAction -> logClientInfo -> msgsnd with the pid as type, then
\* return NULL; the call blocks while the queue is full
LogClientAction(h) ==
    /\ pc[h] = "u_log"
    /\ msgsndReturns(logsQueue)
    /\ logsQueue' = msgsnd(logsQueue, ClientLogType(h))
    /\ pc' = [pc EXCEPT ![h] = "idle"]
    /\ UNCHANGED << destroyed, cleanup, main >>
    /\ UNCHANGED << shared, request, philosopher, serverPhilosopher, semArg,
                    client, toServer, toClient, held, permit, errorLogs >>

\* clientInfoLogsThread of the parent: msgrcv of the first record whose type
\* is the pid of h
ClientInfoLogsThread(h) ==
    /\ ~logsQueue.removed
    /\ \E k \in 1..Len(logsQueue.msgs) :
          /\ logsQueue.msgs[k] = ClientLogType(h)
          /\ \A j \in 1..(k - 1) : logsQueue.msgs[j] # ClientLogType(h)
          /\ logsQueue' = msgrcv(logsQueue, k)
    /\ UNCHANGED << destroyed, cleanup, main >>
    /\ UNCHANGED << shared, pc, request, philosopher, serverPhilosopher,
                    semArg, client, toServer, toClient, held, permit,
                    errorLogs >>

InitLog ==
    /\ TableAfter(LogTable)
    /\ InitProcs(1..LogTable)
    /\ client = [h \in 1..LogTable |->
                    [phase |-> "think",
                     base |-> [id |-> h, state |-> THINKING,
                               stateTimer |-> MaxStateTime]]]

NextLog ==
    \/ \E h \in Procs : ThinkSend(h)
    \/ \E h \in Procs : ReceiveThinking(h)
    \/ \E h \in Procs : LogClientAction(h)
    \/ \E h \in Procs : ClientInfoLogsThread(h)

SpecLog == InitLog /\ [][NextLog]_vars

\* ---- a table of LiveTable philosophers and LiveJoiners more clients that
\* ---- join while they run, under fair scheduling
LiveTable == 2
LiveJoiners == 1
LiveProcs == 1..(LiveTable + LiveJoiners)

InitLive ==
    /\ TableAfter(LiveTable)
    /\ InitProcs(LiveProcs)
    /\ ClientsAfter(LiveTable, LiveProcs)

\* a step of the client of connection h
ClientAct(h) ==
    \/ ClientConnect(h)
    \/ ClientCreated(h)
    \/ ClientTick(h)
    \/ ClientGranted(h)

\* a step of the process clientProcess serving connection h
HandlerAct(h) ==
    \/ ReceiveCreate(h) \/ CreateLock(h) \/ CreateInit(h) \/ DefineRight(h)
    \/ DefineWait(h) \/ DefineSwap(h) \/ DefinePost(h) \/ CreateAppend(h)
    \/ CreateCount(h) \/ CreateEven(h) \/ CreateUnlock(h)
    \/ ReceiveUpdate(h) \/ PostLeft(h) \/ PostRight(h) \/ PostGate(h)
    \/ Overwrite(h) \/ TryGate(h) \/ WaitGate(h) \/ TryLeft(h)
    \/ CallLeft(h) \/ WaitLeft(h) \/ TryRight(h) \/ CallRight(h)
    \/ WaitRight(h) \/ Grant(h)

\* every client thread keeps running (an EATING philosopher goes on to send
\* its THINKING update), and every handler process that can take a step
\* again and again takes it: a sem_wait whose semaphore is posted again and
\* again returns
Fairness ==
    \A h \in LiveProcs : WF_vars(ClientAct(h)) /\ SF_vars(HandlerAct(h))

SpecLive == InitLive /\ [][Next]_vars /\ Fairness

\* ---- a table of LiveTable philosophers and Joiners more clients that join
\* ---- one after the other while the philosophers run
Joiners == 2

InitJoins ==
    /\ TableAfter(LiveTable)
    /\ InitProcs(1..(LiveTable + Joiners))
    /\ ClientsAfter(LiveTable, 1..(LiveTable + Joiners))

\* a joining client connects once the clients before it have joined: the
\* joins of this scenario follow one another
ClientConnectInTurn(h) ==
    /\ \A g \in Procs : g < h => client[g].phase = "run"
    /\ ClientConnect(h)

NextJoins ==
    \/ \E h \in Procs : ClientConnectInTurn(h)
    \/ \E h \in Procs : ClientCreated(h)
    \/ \E h \in Procs : ClientTick(h)
    \/ \E h \in Procs : ClientGranted(h)
    \/ \E h \in Procs : ReceiveCreate(h)
    \/ \E h \in Procs : CreateLock(h)
    \/ \E h \in Procs : CreateInit(h)
    \/ \E h \in Procs : DefineRight(h)
    \/ \E h \in Procs : DefineWait(h)
    \/ \E h \in Procs : DefineSwap(h)
    \/ \E h \in Procs : DefinePost(h)
    \/ \E h \in Procs : CreateAppend(h)
    \/ \E h \in Procs : CreateCount(h)
    \/ \E h \in Procs : CreateEven(h)
    \/ \E h \in Procs : CreateUnlock(h)
    \/ \E h \in Procs : ReceiveUpdate(h)
    \/ \E h \in Procs : PostLeft(h)
    \/ \E h \in Procs : PostRight(h)
    \/ \E h \in Procs : PostGate(h)
    \/ \E h \in Procs : Overwrite(h)
    \/ \E h \in Procs : TryGate(h)
    \/ \E h \in Procs : WaitGate(h)
    \/ \E h \in Procs : TryLeft(h)
    \/ \E h \in Procs : CallLeft(h)
    \/ \E h \in Procs : WaitLeft(h)
    \/ \E h \in Procs : TryRight(h)
    \/ \E h \in Procs : CallRight(h)
    \/ \E h \in Procs : WaitRight(h)
    \/ \E h \in Procs : Grant(h)

SpecJoins == InitJoins /\ [][NextJoins]_vars

\* ---- the joins alone: a table of CapacityStart philosophers whose threads
\* ---- have not taken a step yet, and CapacityJoiners more connections, one
\* ---- more than the table has room for, that each send a create request
CapacityJoiners == 3
CapacityStart == MAX_PHILOSOPHERS + 1 - CapacityJoiners

InitCapacity ==
    /\ TableAfter(CapacityStart)
    /\ InitProcs(1..(MAX_PHILOSOPHERS + 1))
    /\ ClientsAfter(CapacityStart, 1..(MAX_PHILOSOPHERS + 1))

NextJoin ==
    \/ \E h \in Procs : ClientConnect(h)
    \/ \E h \in Procs : ClientCreated(h)
    \/ \E h \in Procs : ReceiveCreate(h)
    \/ \E h \in Procs : CreateLock(h)
    \/ \E h \in Procs : CreateInit(h)
    \/ \E h \in Procs : DefineRight(h)
    \/ \E h \in Procs : DefineWait(h)
    \/ \E h \in Procs : DefineSwap(h)
    \/ \E h \in Procs : DefinePost(h)
    \/ \E h \in Procs : CreateAppend(h)
    \/ \E h \in Procs : CreateCount(h)
    \/ \E h \in Procs : CreateEven(h)
    \/ \E h \in Procs : CreateUnlock(h)

SpecCapacity == InitCapacity /\ [][NextJoin]_vars

\* ---- shutdown: clients join an empty table and the parent process runs
\* ---- cleanup when SIGINT ends its accept loop
\* cleanup: every handler process is sent SIGKILL
CleanupKill ==
    /\ cleanup = "run"
    /\ pc' = [h \in Procs |-> "killed"]
    /\ cleanup' = "msgctl"
    /\ UNCHANGED << logsQueue, destroyed, main >>
    /\ UNCHANGED << shared, request, philosopher, serverPhilosopher, semArg,
                    client, toServer, toClient, held, permit, errorLogs >>

\* cleanup: msgctl(logsQueueId, IPC_RMID)
CleanupLogs ==
    /\ cleanup = "msgctl"
    /\ logsQueue' = [logsQueue EXCEPT !.removed = TRUE]
    /\ cleanup' = "gate"
    /\ UNCHANGED << shared, pc, request, philosopher, serverPhilosopher,
                    semArg, client, toServer, toClient, held, permit,
                    errorLogs, destroyed, main >>

\* cleanup: sem_destroy(&maxAllowedEating)
DestroyGate ==
    /\ cleanup = "gate"
    /\ destroyed' = [destroyed EXCEPT !.maxAllowedEating = TRUE]
    /\ cleanup' = "creation"
    /\ UNCHANGED << shared, pc, request, philosopher, serverPhilosopher,
                    semArg, client, toServer, toClient, held, permit,
                    errorLogs, logsQueue, main >>

\* cleanup: sem_destroy(&philosopherCreationProcess)
DestroyCreation ==
    /\ cleanup = "creation"
    /\ destroyed' = [destroyed EXCEPT !.philosopherCreationProcess = TRUE]
    /\ cleanup' = "chopsticks"
    /\ UNCHANGED << shared, pc, request, philosopher, serverPhilosopher,
                    semArg, client, toServer, toClient, held, permit,
                    errorLogs, logsQueue, main >>

\* the slots of the loop for (i = 0; i < numberChopsticks; i++)
chopsticksToDestroy(n) == 1..n

\* cleanup: the loop of sem_destroy(&chopsticks[i].usage), then shmdt
DestroyChopsticks ==
    /\ cleanup = "chopsticks"
    /\ destroyed' = [destroyed EXCEPT !.chopsticks = @ \cup
           chopsticksToDestroy(numberChopsticks)]
    /\ cleanup' = "shmctl"
    /\ UNCHANGED << shared, pc, request, philosopher, serverPhilosopher,
                    semArg, client, toServer, toClient, held, permit,
                    errorLogs, logsQueue, main >>

\* cleanup: shmctl(sharedResourcesMemoryId, IPC_RMID)
CleanupRemove ==
    /\ cleanup = "shmctl"
    /\ cleanup' = "done"
    /\ UNCHANGED << shared, pc, request, philosopher, serverPhilosopher,
                    semArg, client, toServer, toClient, held, permit,
                    errorLogs, logsQueue, destroyed, main >>

NextShutdown ==
    \/ \E h \in Procs : ClientConnect(h)
    \/ \E h \in Procs : ClientCreated(h)
    \/ \E h \in Procs : ReceiveCreate(h)
    \/ \E h \in Procs : CreateLock(h)
    \/ \E h \in Procs : CreateInit(h)
    \/ \E h \in Procs : DefineRight(h)
    \/ \E h \in Procs : DefineWait(h)
    \/ \E h \in Procs : DefineSwap(h)
    \/ \E h \in Procs : DefinePost(h)
    \/ \E h \in Procs : CreateAppend(h)
    \/ \E h \in Procs : CreateCount(h)
    \/ \E h \in Procs : CreateEven(h)
    \/ \E h \in Procs : CreateUnlock(h)
    \/ CleanupKill
    \/ CleanupLogs
    \/ DestroyGate
    \/ DestroyCreation
    \/ DestroyChopsticks
    \/ CleanupRemove

SpecShutdown == InitEmpty /\ [][NextShutdown]_vars

\* =========================================================================
\* main: the accept loop
\* =========================================================================
\* listen(serverSocket, 3): connections that wait to be accepted
ListenBacklog == 3

\* the connections made and not yet accepted
Dialed == {h \in Procs : client[h].phase = "dialed"}

\* addPhilosophers: connect() returns once the connection is in the backlog
ClientDials(h) ==
    /\ client[h].phase = "absent"
    /\ Cardinality(Dialed) < ListenBacklog
    /\ client' = [client EXCEPT ![h].phase = "dialed"]
    /\ UNCHANGED parent
    /\ UNCHANGED << shared, pc, request, philosopher, serverPhilosopher,
                    semArg, toServer, toClient, held, permit, errorLogs >>

\* while (!shutdownFlag): the test of the loop
MainTest ==
    /\ main.at = "test"
    /\ main' = [main EXCEPT !.at = IF main.shutdownFlag = 0 THEN "call"
                                                            ELSE "cleanup"]
    /\ UNCHANGED << logsQueue, destroyed, cleanup >>
    /\ UNCHANGED << shared, pc, request, philosopher, serverPhilosopher,
                    semArg, client, toServer, toClient, held, permit,
                    errorLogs >>

\* the body of the loop up to the call of accept, which blocks
MainCall ==
    /\ main.at = "call"
    /\ main' = [main EXCEPT !.at = "accept"]
    /\ UNCHANGED << logsQueue, destroyed, cleanup >>
    /\ UNCHANGED << shared, pc, request, philosopher, serverPhilosopher,
                    semArg, client, toServer, toClient, held, permit,
                    errorLogs >>

\* accept returns the connection of h; fork: the child runs clientProcess;
\* the parent stores the socket and the pid at the index of the counters,
\* which no test bounds: beyond the arrays the behaviour is undefined and
\* the model stops the parent
MainAccept(h) ==
    /\ main.at = "accept"
    /\ client[h].phase = "dialed"
    /\ client' = [client EXCEPT ![h].phase = "new"]
    /\ pc' = [pc EXCEPT ![h] = "idle"]
    /\ main' =
          IF main.numberServiceSockets >= MAX_PHILOSOPHERS
             \/ main.numberClients >= MAX_PHILOSOPHERS
          THEN [main EXCEPT !.at = "overflow"]
          ELSE [main EXCEPT !.at = "test",
                            !.numberServiceSockets = @ + 1,
                            !.numberClients = @ + 1]
    /\ UNCHANGED << logsQueue, destroyed, cleanup >>
    /\ UNCHANGED << shared, request, philosopher, serverPhilosopher, semArg,
                    toServer, toClient, held, permit, errorLogs >>

\* ---- the accept loop alone: the server has just started and
\* ---- AcceptClients connections are made, one more than the arrays of the
\* ---- ServerContext have room for
AcceptClients == MAX_PHILOSOPHERS + 1

\* main before its first test of shutdownFlag: no connection accepted
mainAtStart ==
    [at |-> "test", shutdownFlag |-> 0, sigint |-> FALSE,
     numberServiceSockets |-> 0, numberClients |-> 0]

\* the server has just started: no handler process exists, no client has
\* connected
InitServer(P) ==
    /\ InitShared
    /\ InitParent
    /\ main = mainAtStart
    /\ pc = [h \in P |-> "unborn"]
    /\ request = [h \in P |-> ZeroRequest]
    /\ philosopher = [h \in P |-> ZeroPhilosopher]
    /\ serverPhilosopher = [h \in P |-> NULL]
    /\ semArg = [h \in P |-> NULL]
    /\ toServer = [h \in P |-> << >>]
    /\ toClient = [h \in P |-> << >>]
    /\ held = [h \in P |-> {}]
    /\ permit = [h \in P |-> 0]
    /\ errorLogs = [h \in P |-> 0]
    /\ client = [h \in P |-> [phase |-> "absent", base |-> ZeroBase]]

InitAccept == InitServer(1..AcceptClients)

NextAccept ==
    \/ \E h \in Procs : ClientDials(h)
    \/ MainTest
    \/ MainCall
    \/ \E h \in Procs : MainAccept(h)

SpecAccept == InitAccept /\ [][NextAccept]_vars

\* ---- disconnect: a client leaves a table of DisconnectTable philosophers
\* ---- while one more client connects and joins
DisconnectTable == 1
DisconnectProcs == 1..(DisconnectTable + 1)

\* the connections whose client has gone: quit() or an exit of the thread
Gone(h) == client[h].phase \in {"closed", "exited"}

\* quit(): the client program exits and its socket closes; one client leaves
ClientCloses(h) ==
    /\ client[h].phase \in {"creating", "run", "await"}
    /\ \A g \in Procs : ~Gone(g)
    /\ client' = [client EXCEPT ![h].phase = "closed"]
    /\ UNCHANGED parent
    /\ UNCHANGED << shared, pc, request, philosopher, serverPhilosopher,
                    semArg, toServer, toClient, held, permit, errorLogs >>

\* clientProcess: trySocketRead returns 0 once the requests written before
\* the close are read; kill(getppid(), SIGINT) and exit(EXIT_FAILURE)
HandlerReadsEnd(h) ==
    /\ pc[h] = "idle"
    /\ toServer[h] = << >>
    /\ Gone(h)
    /\ main' = [main EXCEPT !.sigint = TRUE]
    /\ pc' = [pc EXCEPT ![h] = "exited"]
    /\ UNCHANGED << logsQueue, destroyed, cleanup >>
    /\ UNCHANGED << shared, request, philosopher, serverPhilosopher, semArg,
                    client, toServer, toClient, held, permit, errorLogs >>

\* the pending SIGINT is delivered to main: programEndHandler sets
\* shutdownFlag; without SA_RESTART an accept that is blocked returns -1 and
\* the loop continues at its test, anywhere else main resumes where it was
DeliverSigint ==
    /\ main.sigint
    /\ main' = [main EXCEPT !.sigint = FALSE,
                            !.shutdownFlag = 1,
                            !.at = IF @ = "accept" THEN "test" ELSE @]
    /\ UNCHANGED << logsQueue, destroyed, cleanup >>
    /\ UNCHANGED << shared, pc, request, philosopher, serverPhilosopher,
                    semArg, client, toServer, toClient, held, permit,
                    errorLogs >>

\* the handler processes registered in clientsProcessIds that still run
Registered(h) == pc[h] \notin {"unborn", "exited"}

\* main after its loop: cleanup sends SIGKILL to every registered process
MainCleanupKill ==
    /\ main.at = "cleanup"
    /\ cleanup = "run"
    /\ main' = [main EXCEPT !.at = "cleaning"]
    /\ pc' = [h \in Procs |-> IF Registered(h) THEN "killed" ELSE pc[h]]
    /\ cleanup' = "msgctl"
    /\ UNCHANGED << logsQueue, destroyed >>
    /\ UNCHANGED << shared, request, philosopher, serverPhilosopher, semArg,
                    client, toServer, toClient, held, permit, errorLogs >>

\* main blocked in accept after DisconnectTable connections, whose clients
\* run; the client of the last connection of DisconnectProcs has not
\* connected yet and no process serves it
InitDisconnect ==
    /\ TableAfter(DisconnectTable)
    /\ InitParent
    /\ main = mainAfter(DisconnectTable)
    /\ pc = [h \in DisconnectProcs |->
             IF h <= DisconnectTable THEN "idle" ELSE "unborn"]
    /\ request = [h \in DisconnectProcs |-> ZeroRequest]
    /\ philosopher = [h \in DisconnectProcs |-> ZeroPhilosopher]
    /\ serverPhilosopher = [h \in DisconnectProcs |-> NULL]
    /\ semArg = [h \in DisconnectProcs |-> NULL]
    /\ toServer = [h \in DisconnectProcs |-> << >>]
    /\ toClient = [h \in DisconnectProcs |-> << >>]
    /\ held = [h \in DisconnectProcs |-> {}]
    /\ permit = [h \in DisconnectProcs |-> 0]
    /\ errorLogs = [h \in DisconnectProcs |-> 0]
    /\ \E t \in [1..DisconnectTable -> randomRange] :
          client = [h \in DisconnectProcs |->
              IF h <= DisconnectTable
              THEN [phase |-> "run",
                    base |-> [id |-> h, state |-> THINKING,
                              stateTimer |-> t[h]]]
              ELSE [phase |-> "absent", base |-> ZeroBase]]

\* a step of main: its loop, the delivery of SIGINT, cleanup
MainAct ==
    \/ MainTest
    \/ MainCall
    \/ \E h \in Procs : MainAccept(h)
    \/ DeliverSigint
    \/ MainCleanupKill
    \/ CleanupLogs
    \/ DestroyGate
    \/ DestroyCreation
    \/ DestroyChopsticks
    \/ CleanupRemove

\* with DisconnectTable + 1 philosophers maxAllowedEating holds one permit:
\* no chopstick is contended and no sem_wait on a chopstick is reached
NextDisconnect ==
    \/ \E h \in Procs : ClientDials(h)
    \/ \E h \in Procs : ClientConnect(h)
    \/ \E h \in Procs : ClientCreated(h)
    \/ \E h \in Procs : ClientTick(h)
    \/ \E h \in Procs : ClientGranted(h)
    \/ \E h \in Procs : ClientCloses(h)
    \/ \E h \in Procs : ReceiveCreate(h)
    \/ \E h \in Procs : CreateLock(h)
    \/ \E h \in Procs : CreateInit(h)
    \/ \E h \in Procs : DefineRight(h)
    \/ \E h \in Procs : CreateAppend(h)
    \/ \E h \in Procs : CreateCount(h)
    \/ \E h \in Procs : CreateEven(h)
    \/ \E h \in Procs : CreateUnlock(h)
    \/ \E h \in Procs : ReceiveUpdate(h)
    \/ \E h \in Procs : PostLeft(h)
    \/ \E h \in Procs : PostRight(h)
    \/ \E h \in Procs : PostGate(h)
    \/ \E h \in Procs : Overwrite(h)
    \/ \E h \in Procs : TryGate(h)
    \/ \E h \in Procs : WaitGate(h)
    \/ \E h \in Procs : TryLeft(h)
    \/ \E h \in Procs : TryRight(h)
    \/ \E h \in Procs : Grant(h)
    \/ \E h \in Procs : HandlerReadsEnd(h)
    \/ MainAct

\* main, every handler process and every client thread keep being
\* scheduled: a handler that can read the end of its connection reads it, a
\* pending signal is delivered, and main takes its next step when it has one
FairDisconnect ==
    /\ WF_vars(MainAct)
    /\ \A h \in DisconnectProcs :
          /\ WF_vars(ClientDials(h) \/ ClientAct(h))
          /\ SF_vars(HandlerAct(h))
          /\ WF_vars(HandlerReadsEnd(h))

SpecDisconnect == InitDisconnect /\ [][NextDisconnect]_vars /\ FairDisconnect

\* =========================================================================
\* properties
\* =========================================================================
Joined == 1..numberPhilosophers
Eating(i) == philosophers[i].base.state = EATING
NumberEating == Cardinality({i \in Joined : Eating(i)})
Holders(c) == {h \in Procs : c \in held[h]}
Created(c) == chopsticks[c].id # 0
Quiescent == \A h \in Procs : pc[h] = "idle"
\* i and j share a chopstick: the right chopstick of i is the left one of j
Neighbours(i, j) ==
    /\ i # j
    /\ philosophers[i].rightChopstick # NULL
    /\ philosophers[i].rightChopstick = philosophers[j].leftChopstick

\* the process serving an update for philosopher i has reached pc p
UpdateAt(i, p) == \E h \in Procs : serverPhilosopher[h] = i /\ pc[h] \in p
\* the EATING -> THINKING update of i has posted its left chopstick (its
\* permit) and has not overwritten the stored state yet
PostedChopstick(i) == UpdateAt(i, {"u_postRight", "u_postGate", "u_overwrite"})
PostedPermit(i) == UpdateAt(i, {"u_overwrite"})
CreatePcs == {"c_lock", "c_init", "c_define", "c_wait", "c_swap", "c_post",
              "c_append", "c_count", "c_even", "c_unlock"}
NoCreateInFlight == \A h \in Procs : pc[h] \notin CreatePcs

\* C1 as claimed: no two philosophers that share a chopstick both have
\* stored state EATING
C1_NeighboursNeverEatTogether ==
    \A i, j \in Joined : Neighbours(i, j) => ~(Eating(i) /\ Eating(j))

\* C1 amended: no two philosophers that share a chopstick both have stored
\* state EATING, unless one of them is inside its EATING -> THINKING update
\* and has already posted a chopstick
C1_NeighboursNeverEatTogetherUnlessReleasing ==
    \A i, j \in Joined :
        Neighbours(i, j) /\ Eating(i) /\ Eating(j)
            => PostedChopstick(i) \/ PostedChopstick(j)

\* C1 witness: a philosopher is EATING while a neighbour with a permit is
\* blocked on the chopstick they share
C1_Witness ==
    \E i, j \in Joined : \E h \in Procs :
        /\ Neighbours(i, j) \/ Neighbours(j, i)
        /\ Eating(i) /\ ~PostedChopstick(i)
        /\ serverPhilosopher[h] = j
        /\ pc[h] \in {"u_waitLeft", "u_waitRight"}
        /\ semArg[h] \in {philosophers[i].leftChopstick,
                          philosophers[i].rightChopstick}

\* C2 as claimed: with N >= 2 philosophers at most floor(N / 2) of them have
\* stored state EATING
C2_AtMostHalfEating ==
    numberPhilosophers >= 2 => NumberEating <= numberPhilosophers \div 2

\* C2 amended: with N >= 2 philosophers at most floor(N / 2) of them have
\* stored state EATING, not counting those whose EATING -> THINKING update
\* has returned its permit and not yet overwritten the stored state
C2_AtMostHalfEatingWithPermit ==
    numberPhilosophers >= 2 =>
        Cardinality({i \in Joined : Eating(i) /\ ~PostedPermit(i)})
            <= numberPhilosophers \div 2

\* C2 witness: floor(N / 2) = 2 philosophers are EATING and a third waits
\* for a permit
C2_Witness ==
    /\ numberPhilosophers \div 2 = 2
    /\ Cardinality({i \in Joined : Eating(i) /\ ~PostedPermit(i)}) = 2
    /\ \E h \in Procs : pc[h] = "u_waitGate"

\* C3: a chopstick's semaphore is binary: its value is 0 or 1, it is 1 when
\* no process holds it, and at most one process holds it
C3_ChopstickSemaphoreBinary ==
    \A c \in Slots : Created(c) =>
        /\ chopsticks[c].usage \in {0, 1}
        /\ Cardinality(Holders(c)) <= 1
        /\ chopsticks[c].usage = 1 - Cardinality(Holders(c))

\* C4: with no call in flight, the permits left are floor(N / 2) minus the
\* number of philosophers whose stored state is EATING
C4_PermitsWhenQuiescent ==
    Quiescent =>
        maxAllowedEating = (numberPhilosophers \div 2) - NumberEating

\* C4 witness: no call in flight, a philosopher EATING, another join done
C4_Witness ==
    /\ Quiescent
    /\ numberPhilosophers > JoinedAtStart
    /\ NumberEating >= 1

\* C5: the EATING -> THINKING update is about to post exactly the two
\* semaphores its process took in the HUNGRY update, and holds one permit
C5_ReleasesWhatItAcquired ==
    \A h \in Procs : pc[h] = "u_postLeft" =>
        /\ held[h] = {philosophers[Me(h)].leftChopstick,
                      philosophers[Me(h)].rightChopstick}
        /\ permit[h] = 1

\* C6: with N >= 2 philosophers and no create in flight, the right chopstick
\* of philosopher i < N is the left chopstick of philosopher i + 1, that of
\* philosopher N is the left chopstick of philosopher 1, and the left
\* chopsticks are the created chopsticks, each once
C6_RingClosed ==
    numberPhilosophers >= 2 /\ NoCreateInFlight =>
        /\ \A i \in Joined :
              philosophers[i].rightChopstick =
                  philosophers[IF i < numberPhilosophers THEN i + 1 ELSE 1]
                      .leftChopstick
        /\ \A i, j \in Joined :
              i # j => philosophers[i].leftChopstick
                           # philosophers[j].leftChopstick
        /\ {philosophers[i].leftChopstick : i \in Joined}
               = {c \in Slots : Created(c)}

\* C6 witness: a join beyond the second has just returned
C6_Witness ==
    /\ numberPhilosophers >= 3
    /\ NoCreateInFlight
    /\ \E h \in Procs :
          /\ client[h].phase = "creating"
          /\ toClient[h] # << >>
          /\ Head(toClient[h]).philosopher.id = numberPhilosophers

C8_TwoJoinsSharedIsOne ==
    numberPhilosophers = 2 /\ NoCreateInFlight =>
        /\ philosophers[1].rightChopstick = philosophers[2].leftChopstick
        /\ chopsticks[philosophers[1].rightChopstick].id = 1
        /\ philosophers[2].rightChopstick = philosophers[1].leftChopstick

\* C8 amended: after two creates, the right chopstick of philosopher 1 is
\* the left chopstick of philosopher 2 and has id 2, and the right chopstick
\* of philosopher 2 is the left chopstick of philosopher 1 and has id 1
C8_TwoJoinsSharedIsTwo ==
    numberPhilosophers = 2 /\ NoCreateInFlight =>
        /\ philosophers[1].rightChopstick = philosophers[2].leftChopstick
        /\ chopsticks[philosophers[1].rightChopstick].id = 2
        /\ philosophers[2].rightChopstick = philosophers[1].leftChopstick
        /\ chopsticks[philosophers[2].rightChopstick].id = 1

\* C8 witness: two creates are complete and no third has started
C8_Witness ==
    /\ numberPhilosophers = 2
    /\ NoCreateInFlight
    /\ \A h \in Procs : client[h].phase # "creating"

\* ---- C9: the scenario of four HUNGRY philosophers ----
PermitHolders == {h \in Procs : permit[h] > 0}
\* every philosopher has issued its HUNGRY update
AllIssued ==
    \A i \in Joined : philosophers[i].base.state \in {HUNGRY, EATING}
\* no HUNGRY update can take a step: each is granted or blocked
HungrySettled ==
    \A h \in Procs :
        /\ pc[h] \notin {"u_tryGate", "u_tryLeft", "u_callLeft", "u_tryRight",
                         "u_callRight", "u_grant"}
        /\ pc[h] = "u_waitGate" => maxAllowedEating = 0
        /\ pc[h] \in {"u_waitLeft", "u_waitRight"}
               => chopsticks[semArg[h]].usage = 0

C10_UnknownIdentityRejected ==
    [][\A h \in Procs :
          ( /\ pc[h] = "idle"
            /\ toServer[h] # << >>
            /\ Head(toServer[h]).type = "REQUEST_UPDATE"
            /\ Head(toServer[h]).philosopher.id \notin Joined
            /\ toServer'[h] = Tail(toServer[h]) )
          => ( /\ pc'[h] = "idle"
               /\ errorLogs'[h] = 1
               /\ shared' = shared
               /\ held' = held /\ permit' = permit
               /\ toClient' = toClient )]_vars

\* ---- C11: no deadlock among the HUNGRY updates ----
\* the HUNGRY update served by h is blocked in a sem_wait that cannot return
Blocked(h) ==
    \/ pc[h] = "u_waitGate" /\ maxAllowedEating = 0
    \/ /\ pc[h] \in {"u_waitLeft", "u_waitRight"}
       /\ chopsticks[semArg[h]].usage = 0
\* the chopstick the HUNGRY update served by h asks for next
NextChopstick(h) ==
    IF pc[h] \in {"u_waitLeft", "u_waitRight"} THEN semArg[h]
    ELSE IF pc[h] \in {"u_tryLeft", "u_callLeft"}
    THEN philosophers[Me(h)].leftChopstick
    ELSE philosophers[Me(h)].rightChopstick
\* the HUNGRY update served by h holds a permit and its next chopstick is
\* free, or it holds both chopsticks
CanAcquire(h) ==
    \/ pc[h] = "u_grant"
    \/ /\ pc[h] \in {"u_tryLeft", "u_callLeft", "u_waitLeft",
                      "u_tryRight", "u_callRight", "u_waitRight"}
       /\ NextChopstick(h) # NULL
       /\ chopsticks[NextChopstick(h)].usage > 0
\* the philosopher of connection h is stored EATING
EatingOf(h) ==
    /\ client[h].base.id \in Joined
    /\ Eating(client[h].base.id)
\* every philosopher's handler holds its left chopstick and is blocked on
\* its right chopstick
CircularWait ==
    \A i \in Joined : \E h \in Procs :
        /\ serverPhilosopher[h] = i
        /\ pc[h] = "u_waitRight"
        /\ philosophers[i].leftChopstick \in held[h]
        /\ chopsticks[semArg[h]].usage = 0

\* C11: with N >= 2 philosophers and no create in flight, whenever a HUNGRY
\* update is blocked, some process that holds a permit has its philosopher
\* EATING or can acquire its next chopstick, and the philosophers never all
\* hold their left chopstick while blocked on their right one
C11_NoDeadlock ==
    numberPhilosophers >= 2 /\ NoCreateInFlight =>
        /\ (\E h \in Procs : Blocked(h)) =>
               \E g \in Procs :
                   permit[g] > 0 /\ (EatingOf(g) \/ CanAcquire(g))
        /\ ~CircularWait


\* ---- C12, C13: progress of the HUNGRY updates and of the joins ----
HungryPcs == {"u_tryGate", "u_waitGate", "u_tryLeft", "u_callLeft",
              "u_waitLeft", "u_tryRight", "u_callRight", "u_waitRight",
              "u_grant"}

\* C12: under fair scheduling every HUNGRY update is eventually granted:
\* the call returns, the philosopher stored EATING
C12_HungryEventuallyGranted ==
    \A h \in LiveProcs : (pc[h] \in HungryPcs) ~> (pc[h] = "idle")

\* the chopstick semaphore c is at 0 and the process that took it will not
\* post it: c is not a chopstick of the philosopher that process serves, and
\* the process is not a creator between its sem_wait and its sem_post
Lost(c) ==
    /\ chopsticks[c].usage = 0
    /\ \A g \in Procs :
          \/ c \notin held[g]
          \/ /\ pc[g] \notin {"c_swap", "c_post"}
             /\ client[g].base.id \in Joined
             /\ c \notin {philosophers[client[g].base.id].leftChopstick,
                          philosophers[client[g].base.id].rightChopstick}

\* C13, the condition its progress needs: a createPhilosopher call is never
\* blocked in sem_wait on an old right chopstick whose semaphore is at 0 and
\* that no process will post
C13_CreateNeverWaitsOnLostChopstick ==
    \A h \in Procs : pc[h] = "c_wait" => ~Lost(semArg[h])

\* ---- C14: the joins are serialized ----
\* the processes between the sem_wait and the sem_post of createPhilosopher
Creators == {h \in Procs : pc[h] \in CreatePcs \ {"c_lock"}}

\* C14: at most one process is between acquiring and releasing
\* philosopherCreationProcess, whose value is 0 while one is and 1 otherwise
C14_JoinsSerialized ==
    /\ philosopherCreationProcess \in {0, 1}
    /\ Cardinality(Creators) <= 1
    /\ philosopherCreationProcess = 1 - Cardinality(Creators)

\* C14 witness: a join is linking the ring while another process waits for
\* philosopherCreationProcess
C14_Witness ==
    /\ \E h \in Procs : pc[h] = "c_define"
    /\ \E g \in Procs : pc[g] = "c_lock"
    /\ philosopherCreationProcess = 0

\* ---- C15: the repointing and the acquisitions ----
\* C15: a HUNGRY update blocked on its right chopstick is blocked on the
\* semaphore its right reference names, and an update about to store EATING
\* holds exactly the semaphores of its left and right references
C15_NoStaleAcquisition ==
    \A h \in Procs :
        /\ pc[h] = "u_waitRight"
               => semArg[h] = philosophers[Me(h)].rightChopstick
        /\ pc[h] = "u_grant"
               => held[h] = {philosophers[Me(h)].leftChopstick,
                             philosophers[Me(h)].rightChopstick}

\* ---- C16: the table and its capacity ----
\* C16: numberPhilosophers and numberChopsticks never exceed
\* MAX_PHILOSOPHERS, and no create writes a slot beyond the arrays
C16_WithinCapacity ==
    /\ numberPhilosophers <= MAX_PHILOSOPHERS
    /\ numberChopsticks <= MAX_PHILOSOPHERS
    /\ \A h \in Procs :
          /\ pc[h] # "overflow"
          /\ pc[h] \in CreatePcs \ {"c_lock", "c_init"}
                => philosopher[h].base.id <= MAX_PHILOSOPHERS

\* ---- C17: holding a chopstick and being EATING ----
\* C17, for the philosophers with no call in flight on their connection: the
\* process of a philosopher stored EATING holds the semaphores of both its
\* chopsticks, and the process of a philosopher stored THINKING or HUNGRY
\* holds no chopstick semaphore
C17_HoldsIffEating ==
    \A h \in Procs :
        pc[h] = "idle" /\ client[h].base.id \in Joined =>
            held[h] = IF EatingOf(h)
                      THEN {philosophers[client[h].base.id].leftChopstick,
                            philosophers[client[h].base.id].rightChopstick}
                      ELSE {}

\* ---- C18: a HUNGRY update for a philosopher stored HUNGRY ----
\* the process h reads an update of desired state st for a joined philosopher
\* whose stored state is one of from
Serves(h, st, from) ==
    /\ pc[h] = "idle"
    /\ toServer[h] # << >>
    /\ Head(toServer[h]).type = "REQUEST_UPDATE"
    /\ Head(toServer[h]).philosopher.state = st
    /\ Head(toServer[h]).philosopher.id \in Joined
    /\ philosophers[Head(toServer[h]).philosopher.id].base.state \in from
    /\ toServer'[h] = Tail(toServer[h])

\* C18: a HUNGRY update for a philosopher whose stored state is HUNGRY
\* overwrites the stored state and timer and returns: it goes on to no
\* sem_trywait or sem_wait, takes no permit and no chopstick, and the store
\* after it is the store a second such update would leave
C18_HungryOnHungryOverwrites ==
    [][\A h \in Procs :
          Serves(h, HUNGRY, {HUNGRY})
          => ( /\ pc'[h] = "idle"
               /\ philosophers' = [philosophers EXCEPT
                      ![Head(toServer[h]).philosopher.id].base =
                          Head(toServer[h]).philosopher]
               /\ held' = held /\ permit' = permit
               /\ toClient' = toClient )]_vars

\* ---- C19: a THINKING update for a philosopher not stored EATING ----
\* C19: a THINKING update for a philosopher whose stored state is THINKING or
\* HUNGRY returns NULL at once, writes no response, and changes nothing but
\* the stored state and timer of that philosopher; and an update starts
\* posting chopsticks and the gate only when it is a THINKING update for a
\* philosopher stored EATING
C19_ThinkingWithoutRelease ==
    [][ /\ \A h \in Procs :
              Serves(h, THINKING, {THINKING, HUNGRY})
              => LET inc == Head(toServer[h]).philosopher
                 IN  /\ pc'[h] = "idle"
                     /\ toClient' = toClient
                     /\ philosophers' = [philosophers EXCEPT
                            ![inc.id].base.state = THINKING,
                            ![inc.id].base.stateTimer = inc.stateTimer]
                     /\ maxAllowedEating' = maxAllowedEating
                     /\ chopsticks' = chopsticks
                     /\ held' = held /\ permit' = permit
                     /\ numberPhilosophers' = numberPhilosophers
        /\ \A h \in Procs :
              pc[h] # "u_postLeft" /\ pc'[h] = "u_postLeft"
              => /\ Serves(h, THINKING, {EATING})
                 /\ serverPhilosopher'[h] = Head(toServer[h]).philosopher.id
      ]_vars

\* C19 witness: a THINKING update sent by a THINKING philosopher on a timer
\* tick has been applied, and a release has been started by another
C19_Witness ==
    /\ \E h \in Procs :
          /\ pc[h] = "idle" /\ toServer[h] = << >>
          /\ client[h].base.id \in Joined
          /\ philosophers[client[h].base.id].base.state = THINKING
          /\ philosophers[client[h].base.id].base.stateTimer
                 \in 1..(MaxStateTime - 1)
    /\ \E h \in Procs : pc[h] = "u_postLeft"

\* ---- C20: the response to an update ----
\* the HUNGRY updates of connection h that are written and not read yet
PendingHungry(h) ==
    {k \in 1..Len(toServer[h]) :
        /\ toServer[h][k].type = "REQUEST_UPDATE"
        /\ toServer[h][k].philosopher.state = HUNGRY}
\* the process h is inside updatePhilosopher for a HUNGRY update
ServingHungry(h) ==
    \/ pc[h] \in HungryPcs
    \/ pc[h] = "segv" /\ request[h].philosopher.state = HUNGRY
\* the update responses of connection h that are written and not read yet
Unread(h) ==
    {k \in 1..Len(toClient[h]) : toClient[h][k].type = "RESPONSE_UPDATE"}
\* the HUNGRY updates of connection h between the client's write of the
\* request and its read of the response
Owed(h) ==
    Cardinality(PendingHungry(h)) + Cardinality(Unread(h))
        + (IF ServingHungry(h) THEN 1 ELSE 0)

\* C20: updatePhilosopher returns the philosopher exactly when it returns from
\* a HUNGRY update, which it has just granted, and the handler then writes
\* one update response; no other step writes one. The client is waiting for
\* an update response exactly when one HUNGRY update of its own is written
\* and not answered or answered and not read, so a written response always
\* has its reader and a waiting client always has its request
C20_ResponseExactlyForHungry ==
    /\ [](\A h \in Procs :
            /\ Owed(h) = (IF client[h].phase = "await" THEN 1 ELSE 0)
            /\ Unread(h) # {} => toClient[h] = << updateResponse(
                   [id |-> client[h].base.id, state |-> EATING,
                    stateTimer |-> 0]) >>)
    /\ [][\A h \in Procs :
            /\ Cardinality(Unread(h))' > Cardinality(Unread(h))
               => /\ pc[h] = "u_grant" /\ pc'[h] = "idle"
                  /\ request[h].philosopher.state = HUNGRY
                  /\ philosophers'[Me(h)].base.state = EATING
                  /\ Cardinality(Unread(h))' = Cardinality(Unread(h)) + 1
            /\ ServingHungry(h) /\ pc'[h] = "idle"
               => Cardinality(Unread(h))' = Cardinality(Unread(h)) + 1
            /\ Serves(h, HUNGRY, {THINKING, HUNGRY, EATING})
               => ServingHungry(h)'
      ]_vars

\* C20 witness: a HUNGRY update has been granted and its response is written
\* and not read yet, and another update is being served with no response owed
C20_Witness ==
    /\ \E h \in Procs : Unread(h) # {} /\ client[h].phase = "await"
    /\ \E h \in Procs : pc[h] = "u_overwrite" /\ client[h].phase = "run"

\* ---- C21: a log call and its caller ----
\* C21: a log call never blocks its caller: a handler that has reached the
\* msgsnd of a log record can always take it, whatever the queue holds
C21_LogNeverBlocks ==
    \A h \in Procs : pc[h] = "u_log" => ENABLED LogClientAction(h)

\* ---- C22: the semaphores destroyed by cleanup ----
\* C22: once cleanup has detached the shared memory, sem_destroy has been
\* called on maxAllowedEating, on philosopherCreationProcess and on the
\* semaphore of every chopstick that was created
C22_AllSemaphoresDestroyed ==
    cleanup \in {"shmctl", "done"} =>
        /\ destroyed.maxAllowedEating
        /\ destroyed.philosopherCreationProcess
        /\ \A c \in Slots : Created(c) => c \in destroyed.chopsticks

\* ---- C23: createChopstick ----
\* C23: every chopstick created is stored with its identity id at slot id - 1
\* (slot id of the model), and numberChopsticks is the number of chopsticks
\* created
C23_ChopstickStoredAndCounted ==
    /\ \A c \in Slots : Created(c) => chopsticks[c].id = c
    /\ numberChopsticks = Cardinality({c \in Slots : Created(c)})

\* ---- C24: what createPhilosopher leaves alone ----
\* the process h takes a step of createPhilosopher
CreateStep(h) ==
    pc[h] \in CreatePcs /\ pc'[h] # pc[h] /\ pc'[h] # "killed"

\* C24: a step of createPhilosopher leaves the stored state, the timer and
\* the left chopstick of every joined philosopher as they are and changes the
\* right chopstick of none but the last one; it changes the semaphore of a
\* chopstick created before only by taking it or posting it back, and it
\* holds none when the call returns
C24_CreateLeavesTableAlone ==
    [][\A h \in Procs :
          CreateStep(h) =>
            /\ \A i \in Joined :
                  /\ philosophers'[i].base = philosophers[i].base
                  /\ philosophers'[i].leftChopstick
                         = philosophers[i].leftChopstick
                  /\ i # numberPhilosophers =>
                         philosophers'[i].rightChopstick
                             = philosophers[i].rightChopstick
            /\ \A c \in Slots :
                  Created(c) =>
                    /\ chopsticks'[c].id = chopsticks[c].id
                    /\ chopsticks'[c].usage - chopsticks[c].usage
                          = (IF c \in held[h] THEN 1 ELSE 0)
                            - (IF c \in held'[h] THEN 1 ELSE 0)
            /\ pc'[h] = "idle" => held'[h] = {}
      ]_vars

\* C24 witness: a philosopher has joined a table of JoinedAtStart
\* philosophers, one of which is stored EATING, and the call has returned
C24_Witness ==
    /\ numberPhilosophers = JoinedAtStart + 1
    /\ NoCreateInFlight
    /\ philosophers[JoinedAtStart].rightChopstick = JoinedAtStart + 1
    /\ \E i \in Joined : Eating(i)

\* ---- C25: the identities createPhilosopher assigns ----
\* the identity the create call of h has assigned, once it has one
AssignedIdentity(h) == philosopher[h].base.id

\* C25: the philosopher of identity i is stored at slot i - 1 (slot i of the
\* model) with left chopstick i, so the identities of the joined
\* philosophers are 1..numberPhilosophers; the create call in progress has
\* the identity after the last one until it counts itself; and the
\* philosopher the call returns is the table entry of its identity when the
\* creation semaphore is posted
C25_IdentitiesInOrder ==
    /\ [](/\ \A i \in Joined :
               /\ philosophers[i].base.id = i
               /\ philosophers[i].leftChopstick = i
           /\ \A h \in Procs :
               /\ pc[h] \in {"c_define", "c_wait", "c_swap", "c_post",
                              "c_append", "c_count"}
                  => AssignedIdentity(h) = numberPhilosophers + 1
               /\ pc[h] \in {"c_even", "c_unlock"}
                  => AssignedIdentity(h) = numberPhilosophers)
    /\ [][\A h \in Procs :
            pc[h] = "c_unlock" /\ pc'[h] = "idle"
            => /\ philosophers[AssignedIdentity(h)] = philosopher[h]
               /\ toClient'[h] = Append(toClient[h], createResponse(
                      philosophers[AssignedIdentity(h)].base))
      ]_vars

\* C25 witness: MaxProc clients have joined an empty table and none has read
\* its create response yet; the responses carry the identities 1..MaxProc
C25_Witness ==
    /\ numberPhilosophers = MaxProc
    /\ \A h \in Procs : client[h].phase = "creating" /\ toClient[h] # << >>
    /\ {Head(toClient[h]).philosopher.id : h \in Procs} = 1..MaxProc

\* ---- C26: the permits createPhilosopher posts ----
\* C26: createPhilosopher posts maxAllowedEating once when the count after
\* the append is even and leaves it alone when the count is odd, and no other
\* step of a join changes it: with no update and no handler killed, the
\* value is floor(numberPhilosophers / 2) but for the even join that has
\* counted itself and not posted yet
C26_PermitEverySecondJoin ==
    /\ [](cleanup = "run" =>
             maxAllowedEating =
               (numberPhilosophers \div 2)
                 - (IF numberPhilosophers % 2 = 0
                       /\ \E h \in Procs : pc[h] = "c_even"
                    THEN 1 ELSE 0))
    /\ [][\A h \in Procs :
            CreateStep(h) =>
              maxAllowedEating' =
                 IF pc[h] = "c_even" /\ numberPhilosophers % 2 = 0
                 THEN maxAllowedEating + 1 ELSE maxAllowedEating
      ]_vars

\* C26 witness: three philosophers have joined an empty table, the third
\* join has returned and the server is running
C26_Witness ==
    /\ numberPhilosophers = 3
    /\ NoCreateInFlight
    /\ maxAllowedEating = 1
    /\ cleanup = "run"

\* ---- C27: the order of acquisition ----
\* the philosopher of connection h holds its left (right) chopstick
HoldsLeft(h) ==
    philosophers[client[h].base.id].leftChopstick \in held[h]
HoldsRight(h) ==
    philosophers[client[h].base.id].rightChopstick \in held[h]
\* the connections whose client has joined
Connected == {h \in Procs : client[h].base.id \in Joined}

\* C27 as claimed: in every state a philosopher that holds its right
\* chopstick holds its left chopstick, and a philosopher that holds one of
\* its chopsticks holds a permit
C27_HoldsInOrder ==
    \A h \in Connected :
        /\ HoldsRight(h) => HoldsLeft(h)
        /\ HoldsLeft(h) \/ HoldsRight(h) => permit[h] > 0

\* C27 amended: the same, but for the release: the EATING -> THINKING update
\* posts the left chopstick first, so between its two sem_post on the
\* chopsticks the philosopher holds its right chopstick and not its left
C27_HoldsInOrderUnlessReleasing ==
    \A h \in Connected :
        /\ pc[h] # "u_postRight" => (HoldsRight(h) => HoldsLeft(h))
        /\ HoldsLeft(h) \/ HoldsRight(h) => permit[h] > 0

\* C27 witness: a HUNGRY update holds a permit and its left chopstick and is
\* blocked on its right chopstick, while a release is between its two posts
C27_Witness ==
    /\ \E h \in Connected :
          pc[h] = "u_waitRight" /\ HoldsLeft(h) /\ permit[h] > 0
    /\ \E h \in Connected : pc[h] = "u_postRight" /\ HoldsRight(h)

\* ---- C28: the permits of maxAllowedEating ----
RECURSIVE permitsOf(_)
\* the number of permits held by the processes of the set S
permitsOf(S) ==
    IF S = {} THEN 0
    ELSE LET h == CHOOSE x \in S : TRUE
         IN  permit[h] + permitsOf(S \ {h})

\* C28: at most floor(numberPhilosophers / 2) processes hold a permit of
\* maxAllowedEating, and the value of the semaphore plus the permits held
\* never exceeds floor(numberPhilosophers / 2)
C28_PermitsAtMostHalf ==
    /\ Cardinality(PermitHolders) <= numberPhilosophers \div 2
    /\ maxAllowedEating + permitsOf(Procs) <= numberPhilosophers \div 2

\* C28 witness: floor(N / 2) = 2 processes hold a permit, the semaphore is
\* at 0 and a third HUNGRY update is blocked on it
C28_Witness ==
    /\ numberPhilosophers \div 2 = 2
    /\ Cardinality(PermitHolders) = 2
    /\ maxAllowedEating = 0
    /\ \E h \in Procs : pc[h] = "u_waitGate"

\* ---- C29: the lone philosopher and the unlocked write ----
\* a HUNGRY update past the acquisition of its permit
PastGatePcs == HungryPcs \ {"u_tryGate", "u_waitGate"}
\* a HUNGRY update reading or waiting on its right chopstick
RightChopstickPcs == {"u_tryRight", "u_callRight", "u_waitRight"}

\* the second join writes the right reference of philosopher 1 without
\* taking a chopstick semaphore
UnlockedWrite(h) ==
    /\ pc[h] = "c_define"
    /\ philosopher[h].base.id = 2
    /\ pc'[h] = "c_append"

\* C29: while exactly one philosopher has joined, no process holds a permit
\* or a chopstick and no HUNGRY update is past the acquisition of its permit;
\* and the unlocked write of the second join is never taken while a HUNGRY
\* update reads or waits on a right chopstick
C29_LoneNeverPastGate ==
    /\ [](numberPhilosophers = 1 =>
            \A h \in Procs :
                /\ permit[h] = 0
                /\ held[h] = {}
                /\ pc[h] \notin PastGatePcs)
    /\ [][\A h \in Procs :
            UnlockedWrite(h) =>
                /\ numberPhilosophers = 1
                /\ \A g \in Procs : pc[g] \notin RightChopstickPcs]_vars

\* C29 witness: the lone philosopher is blocked on maxAllowedEating in its
\* HUNGRY update while the second join is about to write its right reference
C29_Witness ==
    /\ numberPhilosophers = 1
    /\ \E h, g \in Procs :
          /\ pc[h] = "u_waitGate"
          /\ serverPhilosopher[h] = 1
          /\ pc[g] = "c_define"
          /\ philosopher[g].base.id = 2

\* ---- C30: the chopstick held by a join ----
\* createPhilosopher between its sem_wait on the old right chopstick and
\* the sem_post that follows the write of the reference
SwapPcs == {"c_swap", "c_post"}

\* createPhilosopher returns in this step
CreateReturns(h) == pc[h] = "c_unlock" /\ pc'[h] = "idle"

\* C30: a join holds a chopstick only between its sem_wait on the old right
\* chopstick and its sem_post, where it holds exactly the chopstick it
\* waited on; the sem_post gives back that chopstick; and when
\* createPhilosopher returns its process holds no chopstick and
\* philosopherCreationProcess is available again
C30_JoinHoldsOnlyAcrossWrite ==
    /\ [](\A h \in Procs : pc[h] \in CreatePcs =>
            IF pc[h] \in SwapPcs THEN held[h] = {semArg[h]}
                                 ELSE held[h] = {})
    /\ [][\A h \in Procs :
            /\ pc[h] = "c_post" /\ pc'[h] # pc[h] =>
                  /\ chopsticks'[semArg[h]].usage =
                         chopsticks[semArg[h]].usage + 1
                  /\ held'[h] = {}
            /\ CreateReturns(h) =>
                  /\ held'[h] = {}
                  /\ philosopherCreationProcess' = 1]_vars

\* C30 witness: a join beyond the second has written the reference and is
\* about to post the old right chopstick, which it holds
C30_Witness ==
    \E h \in Procs :
        /\ pc[h] = "c_post"
        /\ philosopher[h].base.id > 2
        /\ held[h] = {semArg[h]}
        /\ philosophers[numberPhilosophers].rightChopstick
               = philosopher[h].leftChopstick
        /\ semArg[h] # philosopher[h].leftChopstick

\* ---- C31: the order of the EATING -> THINKING update ----
\* the positions of the EATING -> THINKING branch, in the order of the code
ThinkingPcs == {"u_postLeft", "u_postRight", "u_postGate", "u_overwrite"}

\* process h takes the step of updatePhilosopher that starts at position p
StepFrom(h, p) == pc[h] = p /\ pc'[h] # p /\ pc'[h] # "killed"

\* C31: an EATING -> THINKING update posts the left chopstick, then the right
\* chopstick, then maxAllowedEating, and only then overwrites the stored base
\* with the incoming THINKING one: the stored state is EATING at every
\* position of the branch before the overwrite
C31_ReleaseBeforeOverwrite ==
    /\ [](\A h \in Procs : pc[h] \in ThinkingPcs =>
            /\ philosophers[Me(h)].base.state = EATING
            /\ request[h].philosopher.state = THINKING)
    /\ [][\A h \in Procs :
            /\ StepFrom(h, "u_postLeft") =>
                  /\ pc'[h] = "u_postRight"
                  /\ chopsticks' = SemPost(chopsticks,
                                       philosophers[Me(h)].leftChopstick)
                  /\ UNCHANGED << philosophers, maxAllowedEating >>
            /\ StepFrom(h, "u_postRight") =>
                  /\ pc'[h] = "u_postGate"
                  /\ chopsticks' = SemPost(chopsticks,
                                       philosophers[Me(h)].rightChopstick)
                  /\ UNCHANGED << philosophers, maxAllowedEating >>
            /\ StepFrom(h, "u_postGate") =>
                  /\ pc'[h] = "u_overwrite"
                  /\ maxAllowedEating' = maxAllowedEating + 1
                  /\ UNCHANGED << philosophers, chopsticks >>
            /\ StepFrom(h, "u_overwrite") =>
                  /\ philosophers'[Me(h)].base = request[h].philosopher
                  /\ UNCHANGED << chopsticks, maxAllowedEating >>]_vars

\* C31 witness: the three semaphores are posted, the process holds nothing,
\* and the stored state is still EATING
C31_Witness ==
    \E h \in Procs :
        /\ pc[h] = "u_overwrite"
        /\ philosophers[Me(h)].base.state = EATING
        /\ held[h] = {}
        /\ permit[h] = 0
        /\ maxAllowedEating > 0

\* ---- C32: the EATING update ----
\* clientProcess reads an update request whose incoming state is EATING
EatingUpdate(h) ==
    /\ pc[h] = "idle"
    /\ toServer[h] # << >>
    /\ Head(toServer[h]).type = "REQUEST_UPDATE"
    /\ Head(toServer[h]).philosopher.state = EATING
    /\ toServer'[h] = Tail(toServer[h])

\* the stored state of philosopher i becomes EATING in this step
BecomesEating(i) ==
    philosophers[i].base.state # EATING /\ philosophers'[i].base.state = EATING

\* an EATING update changes no semaphore and no permit and returns NULL
EatingUpdateOnlyOverwrites ==
    \A h \in Procs : EatingUpdate(h) =>
        /\ UNCHANGED << chopsticks, maxAllowedEating, permit, held,
                        philosopherCreationProcess >>
        /\ pc'[h] = "idle"
        /\ toClient'[h] = toClient[h]

\* a stored state becomes EATING only by the last step of a HUNGRY update
\* whose process holds a permit and the two chopsticks of the philosopher
EatingOnlyGranted ==
    \A i \in Joined : BecomesEating(i) =>
        \E h \in Procs :
            /\ pc[h] = "u_grant" /\ Me(h) = i /\ pc'[h] # pc[h]
            /\ permit[h] > 0
            /\ philosophers[i].leftChopstick \in held[h]
            /\ philosophers[i].rightChopstick \in held[h]

\* C32: an EATING update only overwrites the stored base, and a stored state
\* becomes EATING only by the last step of a HUNGRY update that holds a
\* permit and both chopsticks, never by an EATING update
C32_EatingOnlyOverwrites ==
    [][EatingUpdateOnlyOverwrites /\ EatingOnlyGranted]_vars

\* ---- C33: the HUNGRY update ----
\* the HUNGRY update of process h returns in this step
HungryReturns(h) == pc[h] = "u_grant" /\ pc'[h] = "idle"

\* the stored state is HUNGRY from the overwrite of the HUNGRY branch until
\* the call returns
StoredHungryWhileServed ==
    \A h \in Procs : pc[h] \in HungryPcs =>
        philosophers[Me(h)].base.state = HUNGRY

\* the base sent back is the one of the table entry, EATING with timer 0
ReturnsTableEntry ==
    \A h \in Procs : HungryReturns(h) =>
        /\ philosophers'[Me(h)].base.state = EATING
        /\ philosophers'[Me(h)].base.stateTimer = 0
        /\ toClient'[h] =
               Append(toClient[h], updateResponse(philosophers'[Me(h)].base))

\* on return the caller holds one permit and exactly the semaphores of the
\* left and right chopsticks of the philosopher
ReturnsHolding ==
    \A h \in Procs : HungryReturns(h) =>
        /\ permit'[h] = 1
        /\ held'[h] = {philosophers'[Me(h)].leftChopstick,
                       philosophers'[Me(h)].rightChopstick}

\* C33: a HUNGRY update stores HUNGRY first and the stored state stays
\* HUNGRY until the call returns; it returns the table entry with state
\* EATING and timer 0, its caller holding one permit and both chopsticks
C33_HungryStoredThenGranted ==
    /\ []StoredHungryWhileServed
    /\ [][ReturnsTableEntry /\ ReturnsHolding]_vars

\* ---- C34: the references of a joined philosopher ----
\* the right reference philosopher i is given at its own join: chopstick 1,
\* and none for the first philosopher
RightAtJoin(i) == IF i = 1 THEN NULL ELSE 1

\* C34: a joined philosopher i has chopstick i at its left for ever; its
\* right reference is the one of its join or chopstick i + 1, and changes
\* only once, from the former to the latter; chopstick i stays in slot i
\* with identity i
C34_ReferencesWrittenOnce ==
    /\ [](\A i \in Joined :
            /\ philosophers[i].leftChopstick = i
            /\ philosophers[i].rightChopstick \in {RightAtJoin(i), i + 1}
            /\ chopsticks[i].id = i)
    /\ [][\A i \in Joined :
            /\ philosophers'[i].leftChopstick = philosophers[i].leftChopstick
            /\ chopsticks'[i].id = chopsticks[i].id
            /\ philosophers'[i].rightChopstick # philosophers[i].rightChopstick
                  => /\ philosophers[i].rightChopstick = RightAtJoin(i)
                     /\ philosophers'[i].rightChopstick = i + 1]_vars

\* C34 witness: four philosophers have joined; the right reference of the
\* third was repointed to chopstick 4 and the fourth has chopstick 1
C34_Witness ==
    /\ numberPhilosophers = 4
    /\ philosophers[3].rightChopstick = 4
    /\ philosophers[4].rightChopstick = 1
    /\ philosophers[1].rightChopstick = 2

\* ---- C35: what an update can be blocked on ----
\* the chopsticks the references of philosopher i name
OwnChopsticks(i) ==
    {philosophers[i].leftChopstick, philosophers[i].rightChopstick}

\* philosophers i and j have a chopstick in common
SharesChopstick(i, j) == OwnChopsticks(i) \cap OwnChopsticks(j) # {}

\* a step of updatePhilosopher of process h that is not a sem_wait
UpdateStep(h) ==
    \/ PostLeft(h) \/ PostRight(h) \/ PostGate(h) \/ Overwrite(h)
    \/ TryGate(h) \/ TryLeft(h) \/ CallLeft(h) \/ TryRight(h)
    \/ CallRight(h) \/ Grant(h)

\* the sem_wait positions of updatePhilosopher
WaitPcs == {"u_waitGate", "u_waitLeft", "u_waitRight"}

\* process h is blocked in sem_wait on a chopstick, and the chopstick is one
\* of philosopher A's own, held by a join or by the process of a philosopher
\* that shares a chopstick with A
BlockedOnOwnChopstick(h) ==
    LET A == Me(h)
        c == semArg[h]
    IN  /\ c = IF pc[h] = "u_waitLeft" THEN philosophers[A].leftChopstick
                                       ELSE philosophers[A].rightChopstick
        /\ \A g \in Holders(c) :
               \/ pc[g] \in SwapPcs
               \/ /\ client[g].base.id \in Joined
                  /\ SharesChopstick(A, client[g].base.id)

\* C35: no step of updatePhilosopher touches philosopherCreationProcess;
\* outside its sem_wait calls an update can always take its next step; an
\* update blocked in sem_wait on a chopstick is blocked on its
\* philosopher's own left or right chopstick, held by a join or by a
\* philosopher that shares a chopstick with it
C35_UpdateBlockedOnlyOnOwn ==
    /\ [](\A h \in Procs :
            /\ pc[h] \in (ThinkingPcs \cup HungryPcs) \ WaitPcs
                  => ENABLED UpdateStep(h)
            /\ pc[h] \in {"u_waitLeft", "u_waitRight"}
                  /\ chopsticks[semArg[h]].usage = 0
                  => BlockedOnOwnChopstick(h))
    /\ [][\A h \in Procs :
            pc[h] \in ThinkingPcs \cup HungryPcs /\ pc'[h] # pc[h]
                => UNCHANGED philosopherCreationProcess]_vars

\* ---- C36: the updates philosopherThread sends ----
\* the client of connection h writes an update request of state st
Sends(h, st) ==
    /\ client[h].phase = "run"
    /\ Len(toServer'[h]) = Len(toServer[h]) + 1
    /\ toServer'[h][Len(toServer'[h])].philosopher.state = st

\* the states sent follow (THINKING* HUNGRY EATING+ THINKING)*: HUNGRY is
\* sent from THINKING and the thread then waits; EATING is sent by a client
\* whose state is EATING; THINKING is sent from THINKING, or from EATING
\* once the timer of the grant has been counted down by an EATING update;
\* nothing is sent while waiting for the grant; the state of the client
\* becomes EATING only by reading the response to its HUNGRY update
ClientFollowsCycle ==
    \A h \in Procs :
        /\ Sends(h, HUNGRY) =>
              client[h].base.state = THINKING /\ client'[h].phase = "await"
        /\ Sends(h, EATING) => client[h].base.state = EATING
        /\ Sends(h, THINKING) =>
              \/ client[h].base.state = THINKING
              \/ /\ client[h].base.state = EATING
                 /\ client[h].base.stateTimer < MinStateTime
        /\ client[h].phase = "await" =>
              Len(toServer'[h]) <= Len(toServer[h])
        /\ client[h].base.state # EATING /\ client'[h].base.state = EATING =>
              /\ client[h].phase = "await"
              /\ toClient[h] # << >>
              /\ Head(toClient[h]).type = "RESPONSE_UPDATE"
              /\ toClient'[h] = Tail(toClient[h])

\* the handler of connection h reads an update request of state st and
\* finds the philosopher of the request with stored state stored
Finds(h, st, stored) ==
    /\ pc[h] = "idle"
    /\ toServer[h] # << >>
    /\ Head(toServer[h]).type = "REQUEST_UPDATE"
    /\ toServer'[h] = Tail(toServer[h])
    /\ Head(toServer[h]).philosopher.state = st
    /\ LET found == getPhilosopherFromId(Head(toServer[h]).philosopher.id,
                                         philosophers)
       IN  found # NULL /\ philosophers[found].base.state = stored

\* every EATING update finds the stored state EATING
EatingFindsEating ==
    \A h \in Procs : \A stored \in {THINKING, HUNGRY} :
        ~Finds(h, EATING, stored)

\* a THINKING update that finds the stored state EATING is served by a
\* process that holds a permit and both chopsticks of the philosopher
ThinkingFindsGranted ==
    \A h \in Procs : Finds(h, THINKING, EATING) =>
        /\ permit[h] = 1
        /\ OwnChopsticks(client[h].base.id) \subseteq held[h]

\* C36: the updates of a philosopherThread client follow the cycle
\* (THINKING* HUNGRY EATING+ THINKING)*; every EATING update finds the
\* stored state EATING, and every THINKING update that finds EATING follows
\* a grant that acquired a permit and both chopsticks
C36_ClientCycle ==
    [][ClientFollowsCycle /\ EatingFindsEating /\ ThinkingFindsGranted]_vars

\* ---- C37: the HUNGRY update of the first philosopher ----
\* the second createPhilosopher call has not yet posted its permit
SecondJoinBeforePost ==
    \/ numberPhilosophers < 2
    \/ \E g \in Procs : pc[g] = "c_even" /\ philosopher[g].base.id = 2

\* C37: the HUNGRY update of philosopher 1 is past maxAllowedEating only
\* once the second join has posted its permit; from then on its right
\* reference is chopstick 2, it is granted holding chopsticks 1 and 2, and
\* no update faults on a NULL chopstick reference
C37_FirstWaitsForSecond ==
    /\ \A h \in Procs : pc[h] # "segv"
    /\ \A h \in Procs : pc[h] \in PastGatePcs /\ Me(h) = 1 =>
          /\ ~SecondJoinBeforePost
          /\ permit[h] = 1
          /\ philosophers[1].leftChopstick = 1
          /\ philosophers[1].rightChopstick = 2
          /\ pc[h] = "u_grant" => held[h] = {1, 2}

\* C37 witness: the second join has just posted its permit and has not
\* returned yet; philosopher 1, whose HUNGRY update was waiting, has taken
\* the permit
C37_Witness ==
    /\ numberPhilosophers = 2
    /\ maxAllowedEating = 0
    /\ \E g \in Procs : pc[g] = "c_unlock" /\ philosopher[g].base.id = 2
    /\ \E h \in Procs : pc[h] = "u_tryLeft" /\ Me(h) = 1 /\ permit[h] = 1

\* ---- C38: who releases what a philosopher holds ----
\* the semaphore of chopstick c is posted in this step
Posted(c) == chopsticks'[c].usage > chopsticks[c].usage

\* process h takes a step of the EATING -> THINKING branch that posts a
\* chopstick
OwnRelease(h) ==
    pc[h] \in {"u_postLeft", "u_postRight"} /\ pc'[h] # pc[h]

\* C38: a chopstick semaphore held by the process of a philosopher is posted
\* only by the EATING -> THINKING update of that process, and its permit is
\* returned only by that update
C38_ReleasedOnlyByHolder ==
    [][\A h \in Procs :
          /\ \A c \in held[h] :
                Posted(c) /\ pc[h] \notin SwapPcs => OwnRelease(h)
          /\ permit'[h] < permit[h] =>
                pc[h] = "u_postGate" /\ pc'[h] = "u_overwrite"]_vars

\* ---- C40: the arrays of the ServerContext ----
\* C40: numberServiceSockets and numberClients are equal and at most
\* MAX_PHILOSOPHERS, and no accepted connection is stored beyond the arrays
\* serviceSockets and clientsProcessIds
C40_ContextWithinArrays ==
    /\ main.numberServiceSockets = main.numberClients
    /\ main.numberClients <= MAX_PHILOSOPHERS
    /\ main.at # "overflow"

\* ---- C39: a disconnect ends the simulation ----
\* a handler process has read the end of its connection, sent SIGINT to its
\* parent and exited
Disconnected == \E h \in Procs : pc[h] = "exited"

\* cleanup has run: no registered handler process is left running
SimulationEnded ==
    /\ cleanup = "done"
    /\ \A h \in Procs : pc[h] \in {"killed", "exited", "unborn"}

\* C39: once a handler has read the end of its connection, sent SIGINT and
\* exited, the parent eventually leaves its accept loop and runs cleanup,
\* which kills every remaining handler process
C39_DisconnectEndsSimulation == Disconnected ~> SimulationEnded

====
